---- MODULE Spec2Model ----
(***************************************************************************)
(* The AtoZ job bot: the polling cycle (persistent_bot_cycle, and the same *)
(* loop body in run_once), the scheduling loop of run_persistent_bot, the  *)
(* login step, the page helpers of data_processor and the results tracker. *)
(* The browser is the environment: every page call either raises or        *)
(* returns one of the values listed below.                                 *)
(***************************************************************************)
EXTENDS Integers, Sequences, FiniteSets, TLC

(***************************************************************************)
(* Bounds of the model.                                                    *)
(***************************************************************************)
\* longest job list extract_jobs returns
MaxJobs == 2
\* iterations of the while loop of run_persistent_bot
MaxTicks == 2
\* largest configured MAX_ACCEPT_PER_RUN
MaxCap == 1
\* longest table (in rows) given to extract_jobs on its own
MaxRows == 2
\* last clock reading of the tracker on its own
MaxTime == 2
\* largest report interval of the tracker on its own
MaxInterval == 2
\* calls of the tracker's writing methods in a run of the tracker on its own
MaxCalls == 3
\* threads toggle_bot starts in a run of the UI trigger
MaxWorkers == 2
\* most forms on the board page given to accept_from_board on its own
MaxForms == 2
\* sessions POST /api/bot/start creates in a run of the API
MaxStarts == 2
\* most connections registered when broadcast is called
MaxConnections == 3
\* calls of log_bot_activity for the session, enough to pass the 1000 entries
\* the list keeps
MaxLogged == 1002

(***************************************************************************)
(* Text: Python's str.lower, str.strip and the "in" substring test.        *)
(***************************************************************************)
UpperChars == "ABCDEFGHIJKLMNOPQRSTUVWXYZ"
LowerChars == "abcdefghijklmnopqrstuvwxyz"

LowerChar(c) ==
  IF \E i \in 1..Len(UpperChars) : SubSeq(UpperChars, i, i) = c
  THEN LET i == CHOOSE k \in 1..Len(UpperChars) : SubSeq(UpperChars, k, k) = c
       IN  SubSeq(LowerChars, i, i)
  ELSE c

RECURSIVE Lower(_)
Lower(s) == IF s = "" THEN "" ELSE LowerChar(SubSeq(s, 1, 1)) \o Lower(Tail(s))

\* sub in s
Contains(s, sub) ==
  \E i \in 1..(Len(s) - Len(sub) + 1) : SubSeq(s, i, i + Len(sub) - 1) = sub

RECURSIVE LStrip(_)
LStrip(s) == IF s # "" /\ SubSeq(s, 1, 1) = " " THEN LStrip(Tail(s)) ELSE s

RECURSIVE RStrip(_)
RStrip(s) ==
  IF s # "" /\ SubSeq(s, Len(s), Len(s)) = " "
  THEN RStrip(SubSeq(s, 1, Len(s) - 1))
  ELSE s

Strip(s) == RStrip(LStrip(s))

(***************************************************************************)
(* Configuration (config.py): BOT_CONFIG["accept_preconditions"] and       *)
(* MAX_ACCEPT_PER_RUN. The first rule is the one config.py ships; the      *)
(* second has the empty lists that the .get defaults of the cycle allow.   *)
(***************************************************************************)
ShippedRule ==
  [job_type        |-> "Telephone interpreting",
   exclude_types   |-> <<"Face-to-Face", "Face to Face", "In-Person", "Onsite">>,
   required_fields |-> <<"ref", "submitted", "appt_date", "appt_time",
                         "duration", "language", "status">>]

BareRule ==
  [job_type        |-> "Telephone interpreting",
   exclude_types   |-> <<>>,
   required_fields |-> <<>>]

Rules == {ShippedRule, BareRule}

Caps == 0..MaxCap

(***************************************************************************)
(* Job records as extract_jobs builds them (all text fields stripped).     *)
(***************************************************************************)
Job(ref, language, status, view_url) ==
  [ref |-> ref, submitted |-> "01/01/2025 09:00", appt_date |-> "02/01/2025",
   appt_time |-> "10:30", duration |-> "30", language |-> language,
   status |-> status, view_url |-> view_url]

\* the rows the board can show, in the order the board lists them
BoardRows ==
  << Job("101/A", "Urdu",   "Matched",          "/interpreter-jobs/101"),
     Job("102/B", "Arabic", "MATCHED - Confirm", "/interpreter-jobs/102"),
     Job("103/C", "Polish", "Submitted",        "/interpreter-jobs/103"),
     Job("104/D", "",       "Matched",          "/interpreter-jobs/104"),
     Job("105/E", "Somali", "Matched",          "") >>

RECURSIVE Pick(_, _)
\* the rows of BoardRows whose positions are in S, in board order
Pick(S, i) ==
  IF i > Len(BoardRows) THEN <<>>
  ELSE (IF i \in S THEN <<BoardRows[i]>> ELSE <<>>) \o Pick(S, i + 1)

JobLists ==
  { Pick(S, 1) : S \in { T \in SUBSET (1..Len(BoardRows)) : Cardinality(T) <= MaxJobs } }

\* what _extract_interpreter_details_text can return for a detail page
DetailTexts ==
  { "",
    "Telephone interpreting, 30 min",
    "Face-to-Face interpreting required",
    "TELEPHONE INTERPRETING or ONSITE",
    "Onsite visit",
    "Video interpreting" }

\* the outcome of page.goto + page.content + _extract_interpreter_details_text
Fetches ==
  { [raised |-> TRUE, text |-> ""] } \cup { [raised |-> FALSE, text |-> t] : t \in DetailTexts }

NoFetch == [raised |-> TRUE, text |-> ""]

(***************************************************************************)
(* Pure parts of data_processor and of the cycle's tests.                  *)
(***************************************************************************)
\* data_processor.is_all_params_set
is_all_params_set(job, required_fields) ==
  \A i \in 1..Len(required_fields) :
    LET field == required_fields[i]
    IN  field \in DOMAIN job /\ job[field] # "" /\ Strip(job[field]) # ""

\* "matched" in job.get("status", "").lower()
IsMatched(job) == Contains(Lower(job.status), "matched")

\* required and not is_all_params_set(job, required): continue
RequiredOk(job, required_fields) ==
  Len(required_fields) = 0 \/ is_all_params_set(job, required_fields)

\* not job.get("view_url"): continue
HasViewUrl(job) == job.view_url # ""

\* mutant: the status test of line 41 is missing
PassesPreconditions_no_status(job, r) ==
  RequiredOk(job, r.required_fields) /\ HasViewUrl(job)

\* the three tests that precede the detail fetch, in the order of the code
PassesPreconditions(job, r) ==
  IsMatched(job) /\ RequiredOk(job, r.required_fields) /\ HasViewUrl(job)

\* mutant: the exclude types are not lowered before the comparison
AnyExcluded_case_sensitive(details_text, exclude_types) ==
  \E i \in 1..Len(exclude_types) : Contains(details_text, exclude_types[i])

\* any(ex.lower() in details_text for ex in exclude_types), details_text lowered
AnyExcluded(details_text, exclude_types) ==
  \E i \in 1..Len(exclude_types) : Contains(details_text, Lower(exclude_types[i]))

\* mutant: the exclude test of line 79 is missing
is_telephone_job_no_exclude(fetch, job_type, exclude_types) ==
  IF fetch.raised THEN FALSE
  ELSE LET details_text == Lower(fetch.text)
       IN  IF details_text = "" THEN FALSE
           ELSE Contains(details_text, Lower(job_type))

\* data_processor.is_telephone_job, given what its page read produced
is_telephone_job(fetch, job_type, exclude_types) ==
  IF fetch.raised THEN FALSE
  ELSE LET details_text == Lower(fetch.text)
       IN  IF details_text = "" THEN FALSE
           ELSE IF AnyExcluded(details_text, exclude_types) THEN FALSE
           ELSE Contains(details_text, Lower(job_type))

\* data_processor.get_interpreter_details_text, given what its page read produced
get_interpreter_details_text(fetch) == IF fetch.raised THEN "" ELSE fetch.text

\* mutant: every job that is not a telephone job is rejected
RejectTest_all_non_telephone(fetch, exclude_types) == TRUE

\* the reject test of the cycle on the second read
RejectTest(fetch, exclude_types) ==
  AnyExcluded(Lower(get_interpreter_details_text(fetch)), exclude_types)

\* mutant: > in place of >=
CapReached_one_late(n, max_accept) == n > max_accept

\* accepted >= MAX_ACCEPT_PER_RUN: break
CapReached(n, max_accept) == n >= max_accept

\* the reason string the cycle passes to add_rejected_job
RejectReason == "Face-to-face job (not telephone translation)"

(***************************************************************************)
(* The three tests above over the finite inputs of the model, as tables.   *)
(***************************************************************************)
JobRows == { BoardRows[i] : i \in 1..Len(BoardRows) }

Eligible == [j \in JobRows, r \in Rules |-> PassesPreconditions(j, r)]

Telephone ==
  [f \in Fetches, r \in Rules |-> is_telephone_job(f, r.job_type, r.exclude_types)]

Rejectable == [f \in Fetches, r \in Rules |-> RejectTest(f, r.exclude_types)]

(***************************************************************************)
(* Page helpers that act: the outcome of their page calls is drawn from    *)
(* these sets, and the helper maps it to what it returns.                  *)
(***************************************************************************)
AcceptOutcomes == {"query_raised", "no_form", "no_button", "click_raised", "clicked"}

\* mutant: no try/except around the query and the click
accept_from_board_uncaught(o) ==
  [raised |-> (o \in {"query_raised", "click_raised"}),
   ret |-> (o = "clicked"), clicked |-> (o = "clicked")]

\* data_processor.accept_from_board
accept_from_board(o) ==
  [raised |-> FALSE, ret |-> (o = "clicked"), clicked |-> (o = "clicked")]

RejectOutcomes ==
  {"query_raised", "form_clicked", "form_click_raised",
   "button_clicked", "button_click_raised", "nothing"}

\* data_processor.reject_on_detail
reject_on_detail(o) ==
  [raised |-> FALSE,
   ret |-> (o \in {"form_clicked", "button_clicked"}),
   clicked |-> (o \in {"form_clicked", "button_clicked"})]

\* A tr.table__row as extract_jobs queries it: colspan, whether it has a
\* td[colspan]; cells, the inner_text of its td.table__data cells; href, the
\* href of the interpreter-jobs link of the eighth cell ("" without a link).
TableRow(colspan, cells, href) == [colspan |-> colspan, cells |-> cells, href |-> href]

\* the row the board shows for a job (cell texts come with their padding)
RowOf(job) ==
  TableRow(FALSE,
           <<" " \o job.ref \o " ", job.submitted, job.appt_date, job.appt_time,
             job.duration \o " ", job.language \o " ", " " \o job.status, "View">>,
           job.view_url)

RowsOf(l) == [i \in 1..Len(l) |-> RowOf(l[i])]

\* lines 17-23: rows with a colspan cell or fewer than 8 cells are passed over
RowKept(row) == ~row.colspan /\ Len(row.cells) >= 8

\* lines 25-46: the record built from a row
RowRecord(row) ==
  [ref |-> Strip(row.cells[1]), submitted |-> Strip(row.cells[2]),
   appt_date |-> Strip(row.cells[3]), appt_time |-> Strip(row.cells[4]),
   duration |-> Strip(row.cells[5]), language |-> Strip(row.cells[6]),
   status |-> Strip(row.cells[7]), view_url |-> row.href]

RECURSIVE ExtractRows(_)
\* lines 15-46: the for loop over the rows
ExtractRows(rows) ==
  IF rows = <<>> THEN <<>>
  ELSE (IF RowKept(Head(rows)) THEN <<RowRecord(Head(rows))>> ELSE <<>>)
         \o ExtractRows(Tail(rows))

ExtractOutcomes ==
  { [kind |-> "timeout", rows |-> <<>>], [kind |-> "query_raised", rows |-> <<>>] }
    \cup { [kind |-> "rows", rows |-> RowsOf(l)] : l \in JobLists }

\* mutant: the timeout of wait_for_selector is not caught
extract_jobs_uncaught(o) ==
  IF o.kind \in {"timeout", "query_raised"} THEN [raised |-> TRUE, jobs |-> <<>>]
  ELSE [raised |-> FALSE, jobs |-> ExtractRows(o.rows)]

\* data_processor.extract_jobs
extract_jobs(o) ==
  IF o.kind = "timeout" THEN [raised |-> FALSE, jobs |-> <<>>]
  ELSE IF o.kind = "query_raised" THEN [raised |-> TRUE, jobs |-> <<>>]
  ELSE [raised |-> FALSE, jobs |-> ExtractRows(o.rows)]

\* extract_jobs over the outcomes of the model, as a table
Extracted == [o \in ExtractOutcomes |-> extract_jobs(o)]

\* Rows for extract_jobs on its own: well-formed rows and the malformed ones
\* the loop tests for.
SevenCells == <<"201/A", "01/01/2025 09:00", "02/01/2025", "10:30", "30", "Urdu", "Matched">>

TableRows ==
  { RowOf(BoardRows[1]),
    RowOf(BoardRows[3]),
    RowOf(BoardRows[5]),
    TableRow(TRUE, <<"No jobs found">>, ""),
    TableRow(TRUE, SevenCells \o <<"View">>, "/interpreter-jobs/201"),
    TableRow(FALSE, SevenCells, ""),
    TableRow(FALSE, <<"  ">> \o Tail(SevenCells) \o <<"View">>, "/interpreter-jobs/202"),
    TableRow(FALSE, SevenCells \o <<"View", "extra">>, "/interpreter-jobs/201") }

Tables == UNION { [1..n -> TableRows] : n \in 0..MaxRows }

LoginOutcomes == {"goto_raised", "form_raised", "header_seen", "header_timeout"}

\* login_handler.perform_login: does it raise, and was .header__name observed
perform_login(o) ==
  [raised |-> (o = "form_raised"), header |-> (o = "header_seen")]

(***************************************************************************)
(* results_tracker.ResultsTracker                                          *)
(* Every method reads the clock (time.time()) at most once per use that    *)
(* matters here; time is the clock reading handed to it. Clock readings    *)
(* are integers; None is NoTime.                                           *)
(***************************************************************************)
NoTime == -1

\* mutant: the timers of a new tracker start at the epoch
NewTracker_at_epoch(time, report_interval, rejected_report_interval) ==
  [report_interval |-> report_interval,
   rejected_report_interval |-> rejected_report_interval,
   last_report_time |-> 0, last_rejected_report_time |-> 0,
   accepted_jobs |-> <<>>, rejected_jobs |-> <<>>,
   total_accepted |-> 0, total_rejected |-> 0,
   session_start_time |-> time,
   check_cycles |-> 0,
   login_status |-> [success |-> FALSE, status |-> "Not attempted"],
   login_time |-> NoTime, last_activity_time |-> NoTime]

\* ResultsTracker.__init__
NewTracker(time, report_interval, rejected_report_interval) ==
  [report_interval |-> report_interval,
   rejected_report_interval |-> rejected_report_interval,
   last_report_time |-> time, last_rejected_report_time |-> time,
   accepted_jobs |-> <<>>, rejected_jobs |-> <<>>,
   total_accepted |-> 0, total_rejected |-> 0,
   session_start_time |-> time,
   check_cycles |-> 0,
   login_status |-> [success |-> FALSE, status |-> "Not attempted"],
   login_time |-> NoTime, last_activity_time |-> NoTime]

\* mutant: the counter is not incremented
add_accepted_job_uncounted(t, job, time) ==
  [t EXCEPT !.accepted_jobs = Append(@, job @@ [accepted_timestamp |-> time])]

add_accepted_job(t, job, time) ==
  [t EXCEPT !.accepted_jobs = Append(@, job @@ [accepted_timestamp |-> time]),
            !.total_accepted = @ + 1]

add_rejected_job(t, job, reason, time) ==
  [t EXCEPT !.rejected_jobs =
              Append(@, job @@ [rejected_timestamp |-> time, rejection_reason |-> reason]),
            !.total_rejected = @ + 1]

\* mutant: the wrong timestamp is written
increment_check_cycle_wrong_time(t, time) ==
  [t EXCEPT !.check_cycles = @ + 1, !.last_report_time = time]

increment_check_cycle(t, time) ==
  [t EXCEPT !.check_cycles = @ + 1, !.last_activity_time = time]

set_login_status(t, status, success, time) ==
  [t EXCEPT !.login_status = [success |-> success, status |-> status],
            !.login_time = IF success THEN time ELSE @,
            !.last_activity_time = time]

update_activity(t, time) == [t EXCEPT !.last_activity_time = time]

\* mutant: a report is always due
should_report_always(t, time) == TRUE

should_report(t, time) == (time - t.last_report_time) >= t.report_interval

should_report_rejected(t, time) ==
  (time - t.last_rejected_report_time) >= t.rejected_report_interval

\* time - x when x is set, None otherwise
TimeSince(x, time) == IF x = NoTime THEN NoTime ELSE time - x

get_results_summary(t, time) ==
  LET Since(job) == job.accepted_timestamp > t.last_report_time
      jobs_since_last_report == SelectSeq(t.accepted_jobs, Since)
  IN  [session_duration_seconds |-> time - t.session_start_time,
       check_cycles |-> t.check_cycles,
       login_status |-> t.login_status,
       time_since_login |-> TimeSince(t.login_time, time),
       time_since_activity |-> TimeSince(t.last_activity_time, time),
       total_accepted |-> t.total_accepted,
       total_rejected |-> t.total_rejected,
       accepted_since_last_report |-> Len(jobs_since_last_report),
       jobs_since_last_report |-> jobs_since_last_report,
       report_time |-> time]

get_rejected_summary(t, time) ==
  LET Since(job) == job.rejected_timestamp > t.last_rejected_report_time
      jobs_since_last_rejected_report == SelectSeq(t.rejected_jobs, Since)
  IN  [session_duration_seconds |-> time - t.session_start_time,
       check_cycles |-> t.check_cycles,
       login_status |-> t.login_status,
       total_rejected |-> t.total_rejected,
       rejected_since_last_report |-> Len(jobs_since_last_rejected_report),
       jobs_since_last_rejected_report |-> jobs_since_last_rejected_report,
       report_time |-> time]

get_unified_summary(t, time) ==
  LET SinceA(job) == job.accepted_timestamp > t.last_report_time
      SinceR(job) == job.rejected_timestamp > t.last_report_time
      jobs_accepted_since_last == SelectSeq(t.accepted_jobs, SinceA)
      jobs_rejected_since_last == SelectSeq(t.rejected_jobs, SinceR)
  IN  [session_duration_seconds |-> time - t.session_start_time,
       check_cycles |-> t.check_cycles,
       login_status |-> t.login_status,
       time_since_login |-> TimeSince(t.login_time, time),
       time_since_activity |-> TimeSince(t.last_activity_time, time),
       total_accepted |-> t.total_accepted,
       total_rejected |-> t.total_rejected,
       accepted_since_last_report |-> Len(jobs_accepted_since_last),
       rejected_since_last_report |-> Len(jobs_rejected_since_last),
       jobs_accepted_since_last |-> jobs_accepted_since_last,
       jobs_rejected_since_last |-> jobs_rejected_since_last,
       report_time |-> time]

\* mutant: a time that cannot be read counts as midnight
appointment_hour_lenient ==
  [s \in {"10:30", "06:00", "11:59", "12:00", "17:00", "22:00", " 9:05", "TBC", ""} |->
     IF s \in {"TBC", ""} THEN [ok |-> TRUE, hour |-> 0]
     ELSE [ok |-> TRUE, hour |-> IF s = "22:00" THEN 22 ELSE IF s = "17:00" THEN 17
                                 ELSE IF s = "12:00" THEN 12 ELSE 9]]

\* lines 401-402, int(job.get('appt_time', '00:00').split(':')[0]), for the
\* appointment times of the model: the text before the first colon, which
\* int() strips and reads as decimal digits; ok is false where int() raises
\* ValueError
appointment_hour ==
  [s \in {"10:30", "06:00", "11:59", "12:00", "17:00", "22:00", " 9:05", "TBC", ""} |->
     LET cut == {k \in 1..Len(s) : SubSeq(s, k, k) = ":"}
         stop == IF cut = {} THEN Len(s) + 1
                 ELSE CHOOSE k \in cut : \A m \in cut : k <= m
         text == Strip(SubSeq(s, 1, stop - 1))
         Digit(c) == \E d \in 1..10 : SubSeq("0123456789", d, d) = c
         Value(c) == (CHOOSE d \in 1..10 : SubSeq("0123456789", d, d) = c) - 1
         number[n \in 0..Len(text)] ==
           IF n = 0 THEN 0 ELSE 10 * number[n - 1] + Value(SubSeq(text, n, n))
         ok == text # "" /\ \A n \in 1..Len(text) : Digit(SubSeq(text, n, n))
     IN  [ok |-> ok, hour |-> IF ok THEN number[Len(text)] ELSE 0]]

\* get_detailed_stats, lines 372-434: keys are the keys of the dictionary it
\* returns (the early return of lines 379-389 has no 'session_duration_hours')
get_detailed_stats(t, time) ==
  LET none == t.accepted_jobs = <<>> /\ t.rejected_jobs = <<>>
      acc == t.accepted_jobs
      rej == t.rejected_jobs
      \* lines 400-413
      period(job) ==
        LET h == appointment_hour[job.appt_time]
        IN  IF ~h.ok THEN "none"
            ELSE IF 6 <= h.hour /\ h.hour < 12 THEN "morning"
            ELSE IF 12 <= h.hour /\ h.hour < 17 THEN "afternoon"
            ELSE IF 17 <= h.hour /\ h.hour < 22 THEN "evening"
            ELSE "night"
      short == {"total_accepted", "total_rejected", "total_jobs", "languages",
                "time_periods", "rejection_reasons", "average_per_hour", "check_cycles"}
  IN  [total_accepted |-> IF none THEN 0 ELSE t.total_accepted,
       total_rejected |-> IF none THEN 0 ELSE t.total_rejected,
       total_jobs     |-> IF none THEN 0 ELSE t.total_accepted + t.total_rejected,
       \* lines 392-395
       languages |->
         [l \in {acc[i].language : i \in 1..Len(acc)} |->
            Cardinality({i \in 1..Len(acc) : acc[i].language = l})],
       time_periods |->
         [q \in (IF none THEN {} ELSE {"morning", "afternoon", "evening", "night"}) |->
            Cardinality({i \in 1..Len(acc) : period(acc[i]) = q})],
       \* lines 416-419
       rejection_reasons |->
         [r \in {rej[i].rejection_reason : i \in 1..Len(rej)} |->
            Cardinality({i \in 1..Len(rej) : rej[i].rejection_reason = r})],
       check_cycles   |-> t.check_cycles,
       keys |-> IF none THEN short ELSE short \cup {"session_duration_hours"}]

\* mutant: the report is printed and the time of the last report stays
report_results_keeps_time(t, time) ==
  IF ~should_report(t, time) THEN [tracker |-> t, printed |-> <<>>]
  ELSE [tracker |-> t,
        printed |-> <<[kind |-> "results", summary |-> get_unified_summary(t, time)]>>]

\* report_results: when the report is due its summary is printed and the time
\* of the last report advanced; tracker is the tracker afterwards, printed
\* what was printed
report_results(t, time) ==
  IF ~should_report(t, time) THEN [tracker |-> t, printed |-> <<>>]
  ELSE [tracker |-> [t EXCEPT !.last_report_time = time],
        printed |-> <<[kind |-> "results", summary |-> get_unified_summary(t, time)]>>]

\* mutant: the rejected report advances the time of the results report too
report_rejected_jobs_both_timers(t, time) ==
  IF ~should_report_rejected(t, time) THEN [tracker |-> t, printed |-> <<>>]
  ELSE [tracker |-> [t EXCEPT !.last_rejected_report_time = time, !.last_report_time = time],
        printed |-> <<[kind |-> "rejected", summary |-> get_rejected_summary(t, time)]>>]

report_rejected_jobs(t, time) ==
  IF ~should_report_rejected(t, time) THEN [tracker |-> t, printed |-> <<>>]
  ELSE [tracker |-> [t EXCEPT !.last_rejected_report_time = time],
        printed |-> <<[kind |-> "rejected", summary |-> get_rejected_summary(t, time)]>>]

(***************************************************************************)
(* State.                                                                  *)
(*   prog          which entry point runs: run_persistent_bot or run_once  *)
(*   rule, cap     BOT_CONFIG["accept_preconditions"], MAX_ACCEPT_PER_RUN  *)
(*   running       BOT_CONFIG["bot_running"]                               *)
(*   lpc           position of run_persistent_bot / run_once               *)
(*   login_signal  what the login step observed, kept until the first tick *)
(*   ticks         iterations of the while loop started so far             *)
(*   cpc           position inside the cycle                               *)
(*   jobs, idx     the extracted list and the for loop's position in it    *)
(*   accepted      the local counter; accepted_set: it has been assigned   *)
(*   first_read    what is_telephone_job read for jobs[idx]                *)
(*   second_read   what get_interpreter_details_text read for jobs[idx]    *)
(*   page          what the browser page shows                             *)
(*   tracker       the global ResultsTracker                               *)
(*   now           the clock, time.time()                                  *)
(*   enable_quick_check   BOT_CONFIG["enable_quick_check"]                 *)
(*   current_time, last_quick_check   the loop's locals of those names     *)
(*   ran           the steps the loop has run: tick, step and clock        *)
(*   reports       what report_results and report_rejected_jobs printed    *)
(* History kept for the properties:                                        *)
(*   extract_kind  how the last extract_jobs call ended                    *)
(*   navs          detail-page navigations made for jobs[idx]              *)
(*   accept_clicks, reject_clicks   clicks made in the current cycle       *)
(*   last_result   what the last accept/reject helper returned for         *)
(*                 jobs[idx]                                               *)
(*   failed_ref    ref of the last job for which a helper returned false   *)
(* State of the components checked on their own:                           *)
(*   table         the rows of the table extract_jobs is applied to        *)
(*   calls         calls of the tracker's methods made so far              *)
(*   workers       position of every thread toggle_bot has started         *)
(*   bot_thread    ui_trigger.bot_thread: the thread started last (0: None)*)
(*   hpc           position of the toggle_bot handler                      *)
(*   quick         one call of quick_job_check_cycle: its argument, what   *)
(*                 it extracted and read, its matching_jobs and its result *)
(*   click         one call of accept_from_board: the forms of the page in *)
(*                 document order, its argument, the form whose button it  *)
(*                 clicked (0: none) and its result                        *)
(*   stats         one call of get_detailed_stats: what it returned        *)
(*   integration   create_integrated_persistent_bot: its position, what    *)
(*                 the four names are bound to in the results_tracker      *)
(*                 module and in persistent_bot, whether a session was     *)
(*                 started, the tracker calls the bot made, those synced   *)
(* State of the dashboard backend:                                         *)
(*   api           bot_control.py: the global bot_process (0: None, else   *)
(*                 the position in procs of the process it refers to), the *)
(*                 processes start_bot has spawned, the status of every    *)
(*                 BotSession row, the sessions whose monitor task has not *)
(*                 run yet, the request the last step answered ("none" if  *)
(*                 it was not a handler) and the last status code          *)
(*   manager       one call of ConnectionManager.broadcast: the list when  *)
(*                 it was called, the connections whose send raises, those *)
(*                 a send was attempted to, and active_connections when it *)
(*                 returned                                                *)
(*   logs          the Redis list bot_logs:{session_id}, the number of     *)
(*                 log_bot_activity calls, and the argument and result of  *)
(*                 the last get_recent_logs call                           *)
(***************************************************************************)
VARIABLES prog, rule, cap, running, lpc, login_signal, ticks,
          cpc, jobs, idx, accepted, accepted_set, first_read, second_read,
          page, tracker, navs, accept_clicks, reject_clicks, last_result, failed_ref,
          extract_kind, now, reports, table, calls, workers, bot_thread, hpc,
          enable_quick_check, current_time, last_quick_check, ran, quick, click,
          stats, integration, api, manager, logs

cfgVars   == <<prog, rule, cap, enable_quick_check>>
\* what the bot's own steps never touch
apartVars == <<table, calls, workers, bot_thread, hpc, quick, click,
              stats, integration, api, manager, logs>>
\* the clock and what the scheduling loop alone touches
tickVars  == <<now, reports, current_time, last_quick_check, ran>>
loopVars  == <<running, login_signal, ticks>>
localVars == <<jobs, idx, accepted, accepted_set, extract_kind>>
readVars  == <<first_read, second_read, navs>>
clickVars == <<accept_clicks, reject_clicks, last_result, failed_ref>>
\* what the tracker's methods never touch
botVars == <<cfgVars, loopVars, lpc, cpc, localVars, readVars, clickVars, page, table,
             workers, bot_thread, hpc, current_time, last_quick_check, ran, quick,
             click, stats, integration, api, manager, logs>>

vars == <<prog, rule, cap, running, lpc, login_signal, ticks,
          cpc, jobs, idx, accepted, accepted_set, first_read, second_read,
          page, tracker, navs, accept_clicks, reject_clicks, last_result, failed_ref,
          extract_kind, now, reports, table, calls, workers, bot_thread, hpc,
          enable_quick_check, current_time, last_quick_check, ran, quick, click,
          stats,
          integration,
          api,
          manager,
          logs>>

\* BOT_CONFIG["results_report_interval"] and ["rejected_report_interval"], in
\* units of BOT_CONFIG["check_interval"]
results_report_interval == 1
rejected_report_interval == 1
\* BOT_CONFIG["quick_check_interval"], in the same units
quick_check_interval == 1
\* BOT_CONFIG["enable_results_reporting"], ["enable_rejected_reporting"]
enable_results_reporting == TRUE
enable_rejected_reporting == TRUE

\* before anything ran
Fresh ==
  /\ lpc = "login"
  /\ login_signal = "none"
  /\ ticks = 0
  /\ cpc = "idle"
  /\ jobs = <<>>
  /\ idx = 0
  /\ accepted = 0
  /\ accepted_set = FALSE
  /\ first_read = NoFetch
  /\ second_read = NoFetch
  /\ page = "blank"
  /\ now = 0
  /\ reports = <<>>
  /\ calls = 0
  /\ workers = <<>>
  /\ bot_thread = 0
  /\ hpc = "idle"
  /\ navs = 0
  /\ accept_clicks = 0
  /\ reject_clicks = 0
  /\ last_result = "none"
  /\ failed_ref = ""
  /\ extract_kind = "none"
  /\ current_time = 0
  /\ last_quick_check = 0
  /\ ran = <<>>
  /\ quick = [done |-> FALSE, selected_category |-> "", jobs |-> <<>>, reads |-> <<>>,
              matching_jobs |-> <<>>, ret |-> 0]
  /\ click = [done |-> FALSE, forms |-> <<>>, ref |-> "", form |-> 0, ret |-> FALSE]
  /\ logs = [list |-> <<>>, logged |-> 0, limit |-> -1, ret |-> <<>>]
  /\ manager = [done |-> FALSE, before |-> <<>>, broken |-> {}, attempted |-> {},
               active_connections |-> <<>>]
  /\ api = [bot_process |-> 0, procs |-> <<>>, sessions |-> <<>>, monitors |-> {},
           request |-> "none", response |-> 0]
  /\ integration = [pc |-> "idle", module |-> "original", bound |-> "none", session |-> FALSE,
                   calls |-> 0, synced |-> 0]
  /\ stats = [done |-> FALSE, ret |-> <<>>]

Init ==
  /\ prog \in {"persistent", "once"}
  /\ rule \in Rules
  /\ cap \in Caps
  \* config.py line 30: the quick check is off unless the environment asks
  /\ enable_quick_check = FALSE
  /\ Fresh
  /\ running = TRUE
  /\ tracker = NewTracker(0, results_report_interval, rejected_report_interval)
  /\ table = <<>>

\* the shipped rule and the largest cap, the quick check switched on or off
LoopInit ==
  /\ prog \in {"persistent", "once"}
  /\ rule = ShippedRule
  /\ cap = MaxCap
  /\ enable_quick_check \in (IF prog = "persistent" THEN BOOLEAN ELSE {FALSE})
  /\ Fresh
  /\ running = TRUE
  /\ tracker = NewTracker(0, results_report_interval, rejected_report_interval)
  /\ table = <<>>

\* the tracker calls of the cycle exist in persistent_bot.py only
Track(t) == IF prog = "persistent" THEN t ELSE tracker

\* an exception inside the cycle body: persistent_bot_cycle has the try/except
\* of lines 28/94, run_once has none and the exception leaves run_once
Raised ==
  IF prog = "persistent"
  THEN cpc' = "except" /\ lpc' = lpc
  ELSE cpc' = "idle" /\ lpc' = "crashed"

\* a continue that stays on the same job
Continue_same_job == cpc' = "for" /\ idx' = idx /\ lpc' = lpc

\* continue: on to the next job of the for loop
Continue == cpc' = "for" /\ idx' = idx + 1 /\ lpc' = lpc

(***************************************************************************)
(* Login.                                                                  *)
(***************************************************************************)
\* run_persistent_bot, lines 117-129
Login ==
  /\ prog = "persistent" /\ lpc = "login"
  /\ \E o \in LoginOutcomes :
       LET r == perform_login(o)
       IN  IF o = "goto_raised"
           THEN /\ tracker' = set_login_status(tracker, "Attempting login...", FALSE, now)
                /\ lpc' = "crashed" /\ login_signal' = "none" /\ page' = "error"
           ELSE IF r.raised
           THEN /\ tracker' = set_login_status(tracker, "Login failed", FALSE, now)
                /\ lpc' = "crashed" /\ login_signal' = "raised" /\ page' = "login"
           ELSE /\ tracker' = set_login_status(tracker, "Login successful", TRUE, now)
                /\ lpc' = "loop"
                /\ login_signal' = (IF r.header THEN "seen" ELSE "unseen")
                /\ page' = (IF r.header THEN "portal" ELSE "login")
  \* line 132, reached after a login that did not raise
  /\ last_quick_check' = now
  /\ UNCHANGED <<cfgVars, apartVars, now, reports, current_time, ran, running, ticks, cpc,
                 localVars, readVars, clickVars>>

\* atoz_bot.run_once lines 121-123 with try_login
TryLogin ==
  /\ prog = "once" /\ lpc = "login"
  /\ \E credentials \in BOOLEAN, o \in LoginOutcomes :
       LET r == perform_login(o)
       IN  IF o = "goto_raised"
           THEN lpc' = "crashed" /\ login_signal' = "none" /\ page' = "error"
           ELSE IF ~credentials
           THEN lpc' = "loop" /\ login_signal' = "skipped" /\ page' = "login"
           ELSE /\ lpc' = "loop"
                /\ login_signal' = (IF r.raised THEN "raised"
                                    ELSE IF r.header THEN "seen" ELSE "unseen")
                /\ page' = (IF r.header THEN "portal" ELSE "login")
  /\ UNCHANGED <<cfgVars, apartVars, tickVars, running, ticks, cpc, localVars, readVars, clickVars, tracker>>

(***************************************************************************)
(* The scheduling loop of run_persistent_bot, and run_once's single pass.  *)
(***************************************************************************)
\* an entry of ran: the step of the current tick that is being run
Ran(step) == [tick |-> ticks, step |-> step, time |-> now]

\* line 161, the test before the quick check
quick_check_due_when_disabled(enable, time, last, interval) ==
  (time - last) >= interval

quick_check_due(enable, time, last, interval) ==
  enable /\ (time - last) >= interval

\* where quick_job_check_cycle can leave the browser: on the board, on an
\* error page, or on the detail page of a matched row that has a URL
\* (data_processor.py 153-163, 198)
QuickCheckPages ==
  {"board", "error"} \cup
  { BoardRows[i].view_url :
      i \in { k \in 1..Len(BoardRows) : IsMatched(BoardRows[k]) /\ HasViewUrl(BoardRows[k]) } }

\* line 154 true, lines 155-158: a tick starts
StartTick ==
  /\ prog = "persistent" /\ lpc = "loop" /\ running
  /\ ticks < MaxTicks
  /\ ticks' = ticks + 1
  /\ current_time' = now
  /\ tracker' = increment_check_cycle(tracker, now)
  /\ lpc' = "quick_check"
  /\ jobs' = <<>> /\ idx' = 0 /\ accepted' = 0 /\ accepted_set' = FALSE
  /\ first_read' = NoFetch /\ second_read' = NoFetch /\ navs' = 0
  /\ accept_clicks' = 0 /\ reject_clicks' = 0 /\ last_result' = "none"
  \* what the login observed is kept until the polling starts
  /\ login_signal' = "none"
  /\ UNCHANGED <<cfgVars, apartVars, now, reports, last_quick_check, ran, running,
                 cpc, page, failed_ref, extract_kind>>

\* lines 160-171: the quick check when it is due, then the call of
\* persistent_bot_cycle; quick_job_check_cycle catches what its page calls
\* raise, so line 167 is always reached
QuickCheck ==
  /\ prog = "persistent" /\ lpc = "quick_check"
  /\ IF quick_check_due(enable_quick_check, current_time, last_quick_check,
                        quick_check_interval)
     THEN /\ page' \in QuickCheckPages
          /\ last_quick_check' = current_time
          /\ ran' = ran \o <<Ran("quick_check"), Ran("cycle")>>
     ELSE /\ ran' = Append(ran, Ran("cycle"))
          /\ UNCHANGED <<page, last_quick_check>>
  /\ lpc' = "cycle" /\ cpc' = "goto"
  /\ UNCHANGED <<cfgVars, apartVars, now, reports, current_time, loopVars, localVars,
                 readVars, clickVars, tracker>>

\* line 154 false: the loop ends
ExitLoop ==
  /\ prog = "persistent" /\ lpc = "loop" /\ ~running
  /\ lpc' = "final"
  /\ UNCHANGED <<cfgVars, apartVars, tickVars, loopVars, cpc, localVars, readVars, clickVars, page, tracker>>

\* run_once line 126 onwards: the one pass over the board
StartOnce ==
  /\ prog = "once" /\ lpc = "loop"
  /\ ticks' = ticks + 1
  /\ lpc' = "cycle" /\ cpc' = "goto"
  /\ UNCHANGED <<cfgVars, apartVars, tickVars, running, login_signal, localVars, readVars, clickVars,
                 page, tracker>>

\* lines 172-182: update_activity after a cycle that accepted, then
\* check_and_report
Report ==
  /\ prog = "persistent" /\ lpc = "report"
  /\ LET active == IF accepted > 0 THEN update_activity(tracker, now) ELSE tracker
         r == report_results(active, now)
     IN  IF enable_results_reporting
         THEN /\ tracker' = r.tracker
              /\ reports' = reports \o r.printed
              /\ ran' = Append(ran, Ran("results_report"))
         ELSE /\ tracker' = active
              /\ UNCHANGED <<reports, ran>>
  /\ lpc' = "rejected_report"
  /\ UNCHANGED <<cfgVars, apartVars, now, current_time, last_quick_check, loopVars, cpc,
                 localVars, readVars, clickVars, page>>

\* lines 184-186: check_and_report_rejected
ReportRejected ==
  /\ prog = "persistent" /\ lpc = "rejected_report"
  /\ LET r == report_rejected_jobs(tracker, now)
     IN  IF enable_rejected_reporting
         THEN /\ tracker' = r.tracker
              /\ reports' = reports \o r.printed
              /\ ran' = Append(ran, Ran("rejected_report"))
         ELSE UNCHANGED <<tracker, reports, ran>>
  /\ lpc' = "sleep"
  /\ UNCHANGED <<cfgVars, apartVars, now, current_time, last_quick_check, loopVars, cpc,
                 localVars, readVars, clickVars, page>>

\* line 188: time.sleep(check_interval), one unit of the clock
Sleep ==
  /\ prog = "persistent" /\ lpc = "sleep"
  /\ now' = now + 1
  /\ lpc' = "loop"
  /\ UNCHANGED <<cfgVars, apartVars, reports, current_time, last_quick_check, ran, loopVars,
                 cpc, localVars, readVars, clickVars, page, tracker>>

\* lines 190-201: final report, "Bot stopped.", close.  print_detailed_stats
\* reads stats['session_duration_hours'] (results_tracker.py line 446): a
\* KeyError where the key is missing, which nothing in run_persistent_bot
\* catches
Final ==
  /\ prog = "persistent" /\ lpc = "final"
  /\ lpc' = (IF /\ enable_results_reporting
                /\ "session_duration_hours" \notin get_detailed_stats(tracker, now).keys
             THEN "crashed" ELSE "stopped")
  /\ UNCHANGED <<cfgVars, apartVars, tickVars, loopVars, cpc, localVars, readVars, clickVars, page, tracker>>

\* ui_trigger.toggle_bot, the stop branch: the flag goes false at any moment
Stop ==
  /\ prog = "persistent" /\ running /\ lpc \notin {"stopped", "crashed"}
  /\ running' = FALSE
  /\ UNCHANGED <<cfgVars, apartVars, tickVars, lpc, login_signal, ticks, cpc, localVars, readVars,
                 clickVars, page, tracker>>

(***************************************************************************)
(* The cycle: persistent_bot_cycle (persistent_bot.py 26-97) and the same  *)
(* body in run_once (atoz_bot.py 126-182).                                 *)
(***************************************************************************)
\* line 30, page.goto(jobs_url) (run_once: navigate_to_job_board, line 126)
Goto ==
  /\ cpc = "goto"
  /\ \E ok \in BOOLEAN :
       IF ok THEN page' = "board" /\ cpc' = "extract" /\ lpc' = lpc
             ELSE page' = "error" /\ Raised
  /\ UNCHANGED <<cfgVars, apartVars, tickVars, loopVars, localVars, readVars, clickVars, tracker>>

\* lines 33-35: jobs = extract_jobs(page); accepted = 0
Extract ==
  /\ cpc = "extract"
  /\ \E o \in ExtractOutcomes :
       LET r == Extracted[o]
       IN  /\ extract_kind' = o.kind
           /\ IF r.raised
              THEN Raised /\ UNCHANGED <<jobs, idx, accepted, accepted_set>>
              ELSE /\ jobs' = r.jobs /\ idx' = 1
                   /\ accepted' = 0 /\ accepted_set' = TRUE
                   /\ cpc' = "for" /\ lpc' = lpc
  /\ UNCHANGED <<cfgVars, apartVars, tickVars, loopVars, readVars, clickVars, page, tracker>>

\* lines 36-55: the head of the for loop and the tests before the detail page
For ==
  /\ cpc = "for"
  /\ IF idx > Len(jobs) \/ CapReached(accepted, cap)
     THEN cpc' = "return" /\ idx' = idx
     ELSE IF Eligible[jobs[idx], rule]
          THEN cpc' = "is_telephone" /\ idx' = idx
          ELSE cpc' = "for" /\ idx' = idx + 1
  /\ first_read' = NoFetch /\ second_read' = NoFetch /\ navs' = 0
  /\ last_result' = "none"
  /\ UNCHANGED <<cfgVars, apartVars, tickVars, loopVars, lpc, jobs, accepted, accepted_set, extract_kind,
                 accept_clicks, reject_clicks, failed_ref, page, tracker>>

\* line 57: is_telephone_job(page, job["view_url"], job_type, exclude_types)
IsTelephone ==
  /\ cpc = "is_telephone"
  /\ \E f \in Fetches :
       /\ first_read' = f
       /\ page' = (IF f.raised THEN "error" ELSE jobs[idx].view_url)
       /\ cpc' = (IF Telephone[f, rule]
                  THEN "nav_accept" ELSE "details")
  /\ navs' = navs + 1
  /\ UNCHANGED <<cfgVars, apartVars, tickVars, loopVars, lpc, localVars, second_read, clickVars, tracker>>

\* lines 59-60 and 67: the second read and the reject test
Details ==
  /\ cpc = "details"
  /\ \E f \in Fetches :
       /\ second_read' = f
       /\ page' = (IF f.raised THEN "error" ELSE jobs[idx].view_url)
       /\ IF Rejectable[f, rule]
          THEN cpc' = "reject" /\ idx' = idx /\ lpc' = lpc
          ELSE Continue
  \* the text is_telephone_job read was local to it
  /\ first_read' = NoFetch
  /\ navs' = navs + 1
  /\ UNCHANGED <<cfgVars, apartVars, tickVars, loopVars, jobs, accepted, accepted_set, extract_kind,
                 clickVars, tracker>>

\* lines 61-64: reject_on_detail(page) and, when it returns true, add_rejected_job
Reject ==
  /\ cpc = "reject"
  /\ \E o \in RejectOutcomes :
       LET r == reject_on_detail(o)
       IN  IF r.raised
           THEN /\ Raised
                /\ UNCHANGED <<tracker, reject_clicks, last_result, failed_ref>>
           ELSE /\ cpc' = "nav_back" /\ lpc' = lpc
                /\ reject_clicks' = reject_clicks + (IF r.clicked THEN 1 ELSE 0)
                /\ last_result' = (IF r.ret THEN "true" ELSE "false")
                /\ failed_ref' = (IF r.ret THEN failed_ref ELSE jobs[idx].ref)
                /\ tracker' = (IF r.ret
                               THEN Track(add_rejected_job(tracker, jobs[idx], RejectReason, now))
                               ELSE tracker)
  /\ UNCHANGED <<cfgVars, apartVars, tickVars, loopVars, localVars, readVars, accept_clicks, page>>

\* lines 66-67: navigate_to_job_board, continue
NavBack ==
  /\ cpc = "nav_back"
  /\ \E ok \in BOOLEAN :
       IF ok THEN page' = "board" /\ Continue
             ELSE page' = "error" /\ Raised /\ idx' = idx
  /\ UNCHANGED <<cfgVars, apartVars, tickVars, loopVars, jobs, accepted, accepted_set, extract_kind, readVars,
                 clickVars, tracker>>

\* line 70: navigate_to_job_board before the accept
NavAccept ==
  /\ cpc = "nav_accept"
  /\ \E ok \in BOOLEAN :
       IF ok THEN page' = "board" /\ cpc' = "accept" /\ lpc' = lpc
             ELSE page' = "error" /\ Raised
  /\ UNCHANGED <<cfgVars, apartVars, tickVars, loopVars, localVars, readVars, clickVars, tracker>>

\* lines 71-72: accept_from_board(page, job["ref"])
Accept ==
  /\ cpc = "accept"
  /\ \E o \in AcceptOutcomes :
       LET r == accept_from_board(o)
       IN  IF r.raised
           THEN /\ Raised
                /\ UNCHANGED <<idx, accept_clicks, last_result, failed_ref>>
           ELSE /\ accept_clicks' = accept_clicks + (IF r.clicked THEN 1 ELSE 0)
                /\ last_result' = (IF r.ret THEN "true" ELSE "false")
                /\ failed_ref' = (IF r.ret THEN failed_ref ELSE jobs[idx].ref)
                /\ IF r.ret THEN cpc' = "post_accept" /\ idx' = idx /\ lpc' = lpc
                            ELSE Continue
  /\ UNCHANGED <<cfgVars, apartVars, tickVars, loopVars, jobs, accepted, accepted_set, extract_kind, readVars,
                 reject_clicks, page, tracker>>

DialogOutcomes == {"absent", "handled", "raised"}

\* lines 74-92: the two dialogs (each in its own try/except: pass), the wait
\* for network idle, accepted += 1, add_accepted_job
PostAccept ==
  /\ cpc = "post_accept"
  /\ \E hour24 \in DialogOutcomes, cancel \in DialogOutcomes, wait_ok \in BOOLEAN :
       IF wait_ok
       THEN /\ accepted' = accepted + 1
            /\ tracker' = Track(add_accepted_job(tracker, jobs[idx], now))
            /\ Continue
       ELSE Raised /\ UNCHANGED <<accepted, tracker, idx>>
  /\ UNCHANGED <<cfgVars, apartVars, tickVars, loopVars, jobs, accepted_set, extract_kind, readVars,
                 clickVars, page>>

\* lines 94-95: except Exception: log
Except ==
  /\ prog = "persistent" /\ cpc = "except"
  /\ cpc' = "return"
  /\ UNCHANGED <<cfgVars, apartVars, tickVars, loopVars, lpc, localVars, readVars, clickVars, page, tracker>>

\* line 97, return accepted: an unassigned local raises UnboundLocalError,
\* which nothing in run_persistent_bot catches (run_once: lines 180-182)
Return ==
  /\ cpc = "return"
  /\ cpc' = "idle"
  /\ lpc' = (IF prog = "once" THEN "stopped"
             ELSE IF accepted_set THEN "report" ELSE "crashed")
  \* the locals of the cycle other than the returned count go out of scope
  /\ jobs' = <<>> /\ idx' = 0
  /\ first_read' = NoFetch /\ second_read' = NoFetch /\ navs' = 0
  /\ last_result' = "none"
  /\ UNCHANGED <<cfgVars, apartVars, tickVars, loopVars, accepted, accepted_set, extract_kind, accept_clicks,
                 reject_clicks, failed_ref, page, tracker>>

Next ==
  \/ Login
  \/ TryLogin
  \/ StartTick
  \/ ExitLoop
  \/ StartOnce
  \/ QuickCheck
  \/ Report
  \/ ReportRejected
  \/ Sleep
  \/ Final
  \/ Stop
  \/ Goto
  \/ Extract
  \/ For
  \/ IsTelephone
  \/ Details
  \/ Reject
  \/ NavBack
  \/ NavAccept
  \/ Accept
  \/ PostAccept
  \/ Except
  \/ Return

Spec == Init /\ [][Next]_vars

(***************************************************************************)
(* One call of persistent_bot_cycle on its own: the state in which line    *)
(* 171 of run_persistent_bot makes the call, after a login and possibly    *)
(* after an earlier call that accepted a job.                              *)
(***************************************************************************)
CycleInit ==
  /\ prog = "persistent" /\ rule \in Rules /\ cap \in Caps
  /\ enable_quick_check = FALSE /\ running = TRUE
  /\ lpc = "cycle" /\ cpc = "goto" /\ login_signal = "none" /\ page = "portal"
  /\ \E earlier \in BOOLEAN :
       LET t == set_login_status(
                  NewTracker(0, results_report_interval, rejected_report_interval),
                  "Login successful", TRUE, 0)
       IN  /\ ticks = (IF earlier THEN 2 ELSE 1)
           /\ tracker = (IF earlier
                         THEN increment_check_cycle(
                                add_accepted_job(increment_check_cycle(t, 0),
                                                 BoardRows[1], 0), 0)
                         ELSE increment_check_cycle(t, 0))
           \* the count line 171 holds from the call before; the local of the
           \* call itself is not assigned yet
           /\ accepted \in (IF earlier THEN {0, 1} ELSE {0})
  /\ accepted_set = FALSE
  /\ jobs = <<>> /\ idx = 0
  /\ first_read = NoFetch /\ second_read = NoFetch /\ navs = 0
  /\ accept_clicks = 0 /\ reject_clicks = 0 /\ last_result = "none"
  /\ failed_ref = "" /\ extract_kind = "none"
  /\ now = 0 /\ reports = <<>> /\ current_time = 0 /\ last_quick_check = 0
  /\ ran = <<>>
  /\ table = <<>> /\ calls = 0 /\ workers = <<>> /\ bot_thread = 0 /\ hpc = "idle"
  /\ quick = [done |-> FALSE, selected_category |-> "", jobs |-> <<>>, reads |-> <<>>,
              matching_jobs |-> <<>>, ret |-> 0]
  /\ click = [done |-> FALSE, forms |-> <<>>, ref |-> "", form |-> 0, ret |-> FALSE]
  /\ logs = [list |-> <<>>, logged |-> 0, limit |-> -1, ret |-> <<>>]
  /\ manager = [done |-> FALSE, before |-> <<>>, broken |-> {}, attempted |-> {},
               active_connections |-> <<>>]
  /\ api = [bot_process |-> 0, procs |-> <<>>, sessions |-> <<>>, monitors |-> {},
           request |-> "none", response |-> 0]
  /\ integration = [pc |-> "idle", module |-> "original", bound |-> "none", session |-> FALSE,
                   calls |-> 0, synced |-> 0]
  /\ stats = [done |-> FALSE, ret |-> <<>>]

CycleNext ==
  \/ Goto
  \/ Extract
  \/ For
  \/ IsTelephone
  \/ Details
  \/ Reject
  \/ NavBack
  \/ NavAccept
  \/ Accept
  \/ PostAccept
  \/ Except
  \/ Return

\* the cycle is straight-line code: each call of lines 30-97 is made as soon as
\* the one before it has returned or raised
CycleSpec == CycleInit /\ [][CycleNext]_vars /\ WF_vars(CycleNext)

\* the same program with the quick check configurable
LoopSpec == LoopInit /\ [][Next]_vars

(***************************************************************************)
(* extract_jobs on its own: applied once to a table drawn from Tables.     *)
(***************************************************************************)
ExtractInit ==
  /\ prog = "once" /\ rule = ShippedRule /\ cap = 0
  /\ enable_quick_check = FALSE
  /\ Fresh
  /\ running = TRUE
  /\ tracker = NewTracker(0, results_report_interval, rejected_report_interval)
  /\ table \in Tables

\* jobs = extract_jobs(page) with the table present, or not in time
ExtractTable ==
  /\ extract_kind = "none"
  /\ \E kind \in {"rows", "timeout"} :
       /\ extract_kind' = kind
       /\ jobs' = extract_jobs([kind |-> kind, rows |-> table]).jobs
  /\ UNCHANGED <<cfgVars, loopVars, lpc, cpc, idx, accepted, accepted_set, readVars,
                 clickVars, page, tracker, apartVars, tickVars>>

ExtractNext == ExtractTable

ExtractSpec == ExtractInit /\ [][ExtractNext]_vars

(***************************************************************************)
(* quick_job_check_cycle on its own (data_processor.py 128-209): one call  *)
(* with or without a category, over the boards and detail pages of the     *)
(* model. reads[i] is what the detail page of jobs[i] gave.                *)
(***************************************************************************)
\* "matched" in job.get("status", "").lower(), as a table over the rows
StatusMatched == [j \in JobRows |-> IsMatched(j)]

\* selected_category.lower() in details_text (line 162), as a table over
\* the detail pages and the categories of the rules
CategoryIn ==
  [f \in Fetches, c \in {r.job_type : r \in Rules} |-> Contains(Lower(f.text), Lower(c))]

\* mutant: the category is compared without lowering the case
check_jobs_for_category_case_sensitive(o, reads, selected_category) ==
  LET x == Extracted[o]
      Matched(job) == StatusMatched[job]
      Hit(i) == /\ StatusMatched[x.jobs[i]] /\ HasViewUrl(x.jobs[i])
                /\ ~reads[i].raised
                /\ Contains(reads[i].text, selected_category)
      hits == SelectSeq([i \in 1..Len(x.jobs) |-> i], Hit)
  IN  IF x.raised THEN <<>>
      ELSE IF selected_category = "" THEN SelectSeq(x.jobs, Matched)
      ELSE [k \in 1..Len(hits) |-> x.jobs[hits[k]]]

\* check_jobs_for_category: the loop of lines 145-172 keeps jobs[i] when Hit(i)
check_jobs_for_category(o, reads, selected_category) ==
  LET x == Extracted[o]
      Matched(job) == StatusMatched[job]
      Hit(i) == /\ StatusMatched[x.jobs[i]] /\ HasViewUrl(x.jobs[i])
                /\ ~reads[i].raised
                /\ CategoryIn[reads[i], selected_category]
      hits == SelectSeq([i \in 1..Len(x.jobs) |-> i], Hit)
  IN  IF x.raised THEN <<>>
      ELSE IF selected_category = "" THEN SelectSeq(x.jobs, Matched)
      ELSE [k \in 1..Len(hits) |-> x.jobs[hits[k]]]

\* quick_job_check_cycle, lines 193-209
QuickJobCheckCycle ==
  /\ ~quick.done
  /\ \E selected_category \in {"", rule.job_type}, goto_raised \in BOOLEAN,
        o \in ExtractOutcomes :
       LET found == IF goto_raised THEN <<>> ELSE Extracted[o].jobs
           Fetched(i) == /\ selected_category # ""
                         /\ StatusMatched[found[i]] /\ HasViewUrl(found[i])
           visits == {i \in 1..Len(found) : Fetched(i)}
       IN  \E reads \in [1..Len(found) -> Fetches] :
             /\ \A i \in 1..Len(found) : ~Fetched(i) => reads[i] = NoFetch
             /\ LET matching_jobs ==
                       IF goto_raised THEN <<>>
                       ELSE check_jobs_for_category(o, reads, selected_category)
                IN  quick' = [done |-> TRUE, selected_category |-> selected_category,
                              jobs |-> found, reads |-> reads,
                              matching_jobs |-> matching_jobs,
                              ret |-> Len(matching_jobs)]
             /\ page' = IF goto_raised THEN "error"
                        ELSE IF visits = {} THEN "board"
                        ELSE found[CHOOSE i \in visits : \A k \in visits : k <= i].view_url
  /\ UNCHANGED <<cfgVars, tickVars, loopVars, lpc, cpc, localVars, readVars, clickVars,
                 tracker, table, calls, workers, bot_thread, hpc, click, stats, integration, api, manager, logs>>

QuickSpec == Init /\ [][QuickJobCheckCycle]_vars

(***************************************************************************)
(* accept_from_board on its own, applied to a board page whose forms are   *)
(* given in document order.  A form carries its action attribute, the ref  *)
(* of the job it belongs to, whether it is the accept or the reject form   *)
(* of that job, and which of the buttons the helper looks for it has.      *)
(***************************************************************************)
\* data_processor.py lines 86-99 up to the click: for every page and ref, the
\* position of the form whose button btn is (0: no form, or no button in it)
accept_from_board_page ==
  LET Owner == { [ref |-> BoardRows[1].ref, view_url |-> BoardRows[1].view_url],
                 [ref |-> BoardRows[2].ref, view_url |-> BoardRows[2].view_url],
                 [ref |-> "1011/F", view_url |-> "/interpreter-jobs/1011"] }
      Forms == { [action |-> j.view_url \o (IF k = "accept" THEN "/matched"
                                                         ELSE "/matched/reject"),
                  ref |-> j.ref, kind |-> k, button |-> b] :
                 j \in Owner, k \in {"accept", "reject"},
                 b \in {"primary", "submit", "none"} }
      Pages == UNION { [1..n -> Forms] : n \in 0..MaxForms }
      \* line 89: ref.split("/")[0].strip()
      numeric_id(ref) ==
        LET cut == {k \in 1..Len(ref) : SubSeq(ref, k, k) = "/"}
            stop == IF cut = {} THEN Len(ref) + 1
                    ELSE CHOOSE k \in cut : \A m \in cut : k <= m
        IN  Strip(SubSeq(ref, 1, stop - 1))
      \* line 90: form[action*='/interpreter-jobs/{numeric_id}/matched']
      selected == [a \in {f.action : f \in Forms},
                   r \in {BoardRows[1].ref, BoardRows[2].ref} |->
                     Contains(a, "/interpreter-jobs/" \o numeric_id(r) \o "/matched")]
  IN  [forms \in Pages, ref \in {BoardRows[1].ref, BoardRows[2].ref} |->
         LET hits == {i \in 1..Len(forms) : selected[forms[i].action, ref]}
             \* query_selector returns the first match in document order
             form == IF hits = {} THEN 0
                     ELSE CHOOSE i \in hits : \A k \in hits : i <= k
         IN  \* lines 93-95: a primary button, else a submit button, else False
             IF form = 0 \/ forms[form].button = "none" THEN 0 ELSE form]

\* accept_from_board, lines 86-99: a raise of query_selector or of click is
\* caught and answered with False; a click that raised has been attempted
AcceptFromBoard ==
  /\ ~click.done
  /\ \E x \in DOMAIN accept_from_board_page,
        o \in {"ok", "query_raised", "click_raised"} :
       LET form == IF o = "query_raised" THEN 0 ELSE accept_from_board_page[x]
       IN  click' = [done |-> TRUE, forms |-> x[1], ref |-> x[2], form |-> form,
                     ret |-> (o = "ok" /\ form # 0)]
  /\ UNCHANGED <<cfgVars, tickVars, loopVars, lpc, cpc, localVars, readVars, clickVars,
                 page, tracker, table, calls, workers, bot_thread, hpc, quick, stats, integration, api, manager, logs>>

AcceptSpec == Init /\ [][AcceptFromBoard]_vars

(***************************************************************************)
(* get_detailed_stats on its own: a tracker that has recorded a sequence   *)
(* of accepted jobs, with the appointment times of appointment_hour and    *)
(* two languages, and a sequence of rejected jobs with either of two       *)
(* reasons, is asked for its statistics.                                   *)
(***************************************************************************)
DetailedStats ==
  /\ ~stats.done
  /\ LET Accepted == { [BoardRows[1] EXCEPT !.appt_time = a, !.language = l] :
                       a \in DOMAIN appointment_hour, l \in {"Urdu", "Arabic"} }
         Reasons == {RejectReason, "Required field missing"}
     IN  \E acc \in UNION { [1..n -> Accepted] : n \in 0..MaxJobs },
            rej \in UNION { [1..n -> Reasons] : n \in 0..MaxJobs } :
           LET a[n \in 0..Len(acc)] ==
                 IF n = 0 THEN tracker ELSE add_accepted_job(a[n - 1], acc[n], now)
               r[n \in 0..Len(rej)] ==
                 IF n = 0 THEN a[Len(acc)]
                 ELSE add_rejected_job(r[n - 1], BoardRows[2], rej[n], now)
           IN  /\ tracker' = r[Len(rej)]
               /\ stats' = [done |-> TRUE, ret |-> get_detailed_stats(r[Len(rej)], now)]
  /\ UNCHANGED <<cfgVars, tickVars, loopVars, lpc, cpc, localVars, readVars, clickVars,
                 page, table, calls, workers, bot_thread, hpc, quick, click, integration, api, manager, logs>>

StatsSpec == Init /\ [][DetailedStats]_vars

(***************************************************************************)
(* The integrated run (bot_integration.py).  add_accepted_job,             *)
(* add_rejected_job, set_login_status and increment_check_cycle are        *)
(* attributes of the results_tracker module; persistent_bot binds the same *)
(* names in its own namespace when it is imported (persistent_bot.py       *)
(* lines 15-19), and the bot calls them through that binding.  The four    *)
(* are patched and restored together, so one field stands for each group.  *)
(***************************************************************************)
integrationFrame ==
  <<cfgVars, tickVars, loopVars, lpc, cpc, localVars, readVars, clickVars, page,
    table, calls, workers, bot_thread, hpc, quick, click, stats, api, manager, logs>>

\* lines 175-199: the import of persistent_bot, start_session, and with a
\* session the patch of the module attributes
IntegratedStart ==
  /\ integration.pc = "idle"
  /\ \E started \in BOOLEAN :
       integration' = [integration EXCEPT
                         !.bound = integration.module,
                         !.session = started,
                         !.module = IF started THEN "enhanced" ELSE @,
                         !.pc = IF started THEN "integrated" ELSE "standalone"]
  /\ UNCHANGED <<integrationFrame, tracker>>

\* a tracker call of run_persistent_bot (persistent_bot.py lines 63, 91, 120,
\* 125, 128): the function its own name is bound to runs; the enhanced ones add
\* to the local tracker and sync when there is a session (lines 78-147)
BotTrackerCall ==
  /\ integration.pc \in {"integrated", "standalone"}
  /\ integration.calls < MaxCalls
  /\ \E kind \in {"accepted", "rejected", "login"} :
       tracker' = CASE kind = "accepted" -> add_accepted_job(tracker, BoardRows[1], now)
                    [] kind = "rejected" ->
                         add_rejected_job(tracker, BoardRows[2], RejectReason, now)
                    [] OTHER -> set_login_status(tracker, "Login successful", TRUE, now)
  /\ integration' = [integration EXCEPT
                       !.calls = @ + 1,
                       !.synced = IF integration.bound = "enhanced" /\ integration.session
                                  THEN @ + 1 ELSE @]
  /\ UNCHANGED integrationFrame

\* lines 204-215: run_persistent_bot returns or raises; finally restores the
\* originals and stops the session (standalone: line 186 returns)
IntegratedExit ==
  /\ integration.pc \in {"integrated", "standalone"}
  /\ \E how \in {"return", "KeyboardInterrupt", "error"} :
       integration' = [integration EXCEPT
                         !.module = IF integration.pc = "integrated" THEN "original" ELSE @,
                         !.session = FALSE,
                         !.pc = "done"]
  /\ UNCHANGED <<integrationFrame, tracker>>

IntegratedNext ==
  \/ IntegratedStart
  \/ BotTrackerCall
  \/ IntegratedExit

IntegratedSpec == Init /\ [][IntegratedNext]_vars

(***************************************************************************)
(* The bot control API (backend/app/api/bot_control.py).  A handler has no *)
(* await in it, so it runs from its first line to its response without     *)
(* another handler or the monitor task in between.  A process is "alive",  *)
(* "terminating" once SIGTERM was sent to it, or "exited"; poll() is None  *)
(* for the first two.  A session row holds its status, whether it has an   *)
(* end time, the process spawned for it (0: none), whether start_bot       *)
(* answered 200 for it, and whether a stop of its process was requested.   *)
(***************************************************************************)
\* bot_process and bot_process.poll() is None (lines 41, 94, 255)
poll_is_none(a) == a.bot_process # 0 /\ a.procs[a.bot_process] # "exited"

\* POST /api/bot/start, lines 31-87
StartBot ==
  IF poll_is_none(api)
  THEN /\ api' = [api EXCEPT !.request = "start", !.response = 400]
       /\ UNCHANGED <<cfgVars, tickVars, loopVars, lpc, cpc, localVars, readVars, clickVars,
                 page, tracker, table, calls, workers, bot_thread, hpc, quick, click,
                 stats, integration, manager, logs>>
  ELSE /\ Len(api.sessions) < MaxStarts
       /\ \E o \in {"ok", "popen_raised", "commit_raised"} :
            LET id == Len(api.sessions) + 1
                spawned == o # "popen_raised"
                proc == IF spawned THEN Len(api.procs) + 1 ELSE 0
            IN  api' = [api EXCEPT
                  !.sessions = Append(@, [status |-> IF o = "ok" THEN "running" ELSE "error",
                                          end_time |-> FALSE, proc |-> proc,
                                          started |-> o = "ok", stop_requested |-> FALSE]),
                  !.procs = IF spawned THEN Append(@, "alive") ELSE @,
                  !.bot_process = IF spawned THEN proc ELSE @,
                  !.monitors = IF o = "ok" THEN @ \cup {id} ELSE @,
                  !.request = "start",
                  !.response = IF o = "ok" THEN 200 ELSE 500]
       /\ UNCHANGED <<cfgVars, tickVars, loopVars, lpc, cpc, localVars, readVars, clickVars,
                 page, tracker, table, calls, workers, bot_thread, hpc, quick, click,
                 stats, integration, manager, logs>>

\* POST /api/bot/stop, lines 89-130: the first running session is marked
\* stopped and committed (lines 99-107), then the process group is signalled
\* (lines 120-123) and the handle dropped (line 125)
StopBot ==
  IF ~poll_is_none(api)
  THEN /\ api' = [api EXCEPT !.request = "stop", !.response = 400]
       /\ UNCHANGED <<cfgVars, tickVars, loopVars, lpc, cpc, localVars, readVars, clickVars,
                 page, tracker, table, calls, workers, bot_thread, hpc, quick, click,
                 stats, integration, manager, logs>>
  ELSE /\ \E o \in {"ok", "kill_raised"} :
            LET run == {i \in 1..Len(api.sessions) : api.sessions[i].status = "running"}
                current_session == IF run = {} THEN 0
                                   ELSE CHOOSE i \in run : \A k \in run : i <= k
            IN  api' = [api EXCEPT
                  !.sessions = [i \in 1..Len(@) |->
                     [@[i] EXCEPT
                        !.status = IF i = current_session THEN "stopped" ELSE @,
                        !.end_time = IF i = current_session THEN TRUE ELSE @,
                        !.stop_requested = @ \/ api.sessions[i].proc = api.bot_process]],
                  !.procs = IF o = "ok" THEN [@ EXCEPT ![api.bot_process] = "terminating"]
                            ELSE @,
                  !.bot_process = IF o = "ok" THEN 0 ELSE @,
                  !.request = "stop",
                  !.response = IF o = "ok" THEN 200 ELSE 500]
       /\ UNCHANGED <<cfgVars, tickVars, loopVars, lpc, cpc, localVars, readVars, clickVars,
                 page, tracker, table, calls, workers, bot_thread, hpc, quick, click,
                 stats, integration, manager, logs>>

\* a bot process ends, of itself or of the signal sent to it
ProcessExit ==
  /\ \E p \in 1..Len(api.procs) :
       /\ api.procs[p] # "exited"
       /\ api' = [api EXCEPT !.procs[p] = "exited", !.request = "none"]
  /\ UNCHANGED <<cfgVars, tickVars, loopVars, lpc, cpc, localVars, readVars, clickVars,
                 page, tracker, table, calls, workers, bot_thread, hpc, quick, click,
                 stats, integration, manager, logs>>

\* monitor_bot_process, lines 251-283, run as a background task after the
\* response of start_bot.  While the process lives the body of the loop is
\* entered; asyncio is not imported in bot_control.py, so line 265 raises
\* NameError, the except clause of lines 267-277 logs it and breaks.  Either
\* way lines 279-283 follow: a session still "running" becomes "stopped".
monitor_bot_process ==
  /\ \E session_id \in api.monitors :
       api' = [api EXCEPT
                 !.monitors = @ \ {session_id},
                 !.request = "none",
                 !.sessions[session_id] =
                   IF @.status = "running"
                   THEN [@ EXCEPT !.status = "stopped", !.end_time = TRUE]
                   ELSE @]
  /\ UNCHANGED <<cfgVars, tickVars, loopVars, lpc, cpc, localVars, readVars, clickVars,
                 page, tracker, table, calls, workers, bot_thread, hpc, quick, click,
                 stats, integration, manager, logs>>

ApiNext ==
  \/ StartBot
  \/ StopBot
  \/ ProcessExit
  \/ monitor_bot_process

ApiSpec == Init /\ [][ApiNext]_vars

(***************************************************************************)
(* ConnectionManager.broadcast (backend/main.py) on its own, called with   *)
(* connections 1..n registered in this order, any of them broken.          *)
(***************************************************************************)
\* lines 57-62: the for statement keeps a position in the list it walks, so
\* after a remove the element that moved into the place of the removed one
\* is passed over
Broadcast ==
  /\ ~manager.done
  /\ \E n \in 0..MaxConnections : \E broken \in SUBSET (1..n) :
       LET before == [k \in 1..n |-> k]
           \* after k passes of the loop: the list, the position of the for
           \* statement, the connections send_text was called on
           pass[k \in 0..n] ==
             IF k = 0 THEN [list |-> before, at |-> 0, attempted |-> {}]
             ELSE LET was == pass[k - 1]
                  IN  IF was.at >= Len(was.list) THEN was
                      ELSE LET connection == was.list[was.at + 1]
                           IN  [list |-> IF connection \in broken
                                         THEN SelectSeq(was.list,
                                                        LAMBDA c : c # connection)
                                         ELSE was.list,
                                at |-> was.at + 1,
                                attempted |-> was.attempted \cup {connection}]
       IN  manager' = [done |-> TRUE, before |-> before, broken |-> broken,
                       attempted |-> pass[n].attempted,
                       active_connections |-> pass[n].list]
  /\ UNCHANGED <<cfgVars, tickVars, loopVars, lpc, cpc, localVars, readVars, clickVars,
                 page, tracker, table, calls, workers, bot_thread, hpc, quick, click,
                 stats, integration, api, logs>>

BroadcastSpec == Init /\ [][Broadcast]_vars

(***************************************************************************)
(* The log list of one session in Redis (backend/app/services/             *)
(* bot_service.py).  Redis counts list positions from 0, a negative        *)
(* position from the end of the list, and both ends of a range are part of *)
(* the range.                                                              *)
(***************************************************************************)
\* LRANGE key start stop
lrange(list, start, stop) ==
  LET first == IF start < 0 THEN (IF Len(list) + start < 0 THEN 0
                                  ELSE Len(list) + start)
               ELSE start
      last == IF stop < 0 THEN Len(list) + stop
              ELSE IF stop >= Len(list) THEN Len(list) - 1 ELSE stop
  IN  IF first > last \/ first >= Len(list) THEN <<>>
      ELSE SubSeq(list, first + 1, last + 1)

\* LPUSH key value
lpush(list, value) == <<value>> \o list

\* LTRIM key start stop
ltrim(list, start, stop) == lrange(list, start, stop)

\* lines 121-127: the entry the n-th call builds; the timestamp is the time
\* of the call
log_entry(n) ==
  [session_id |-> "s1", level |-> IF n % 2 = 0 THEN "INFO" ELSE "ERROR",
   message |-> "m", component |-> "bot", timestamp |-> n]

\* str() of a dict whose values are all strings, and eval() of that text
str(entry) == <<"str", entry>>
eval(text) == text[2]

\* lines 119-131
LogBotActivity ==
  /\ logs.logged < MaxLogged
  /\ logs' = [list |-> ltrim(lpush(logs.list, str(log_entry(logs.logged + 1))),
                             0, 999),
              logged |-> logs.logged + 1, limit |-> -1, ret |-> <<>>]
  /\ UNCHANGED <<cfgVars, tickVars, loopVars, lpc, cpc, localVars, readVars, clickVars,
                 page, tracker, table, calls, workers, bot_thread, hpc, quick, click,
                 stats, integration, api, manager>>

\* lines 133-136
GetRecentLogs ==
  /\ \E limit \in {0, 1, 2, 50, 1000, 1001} :
       LET found == lrange(logs.list, 0, limit - 1)
       IN  logs' = [logs EXCEPT !.limit = limit,
                                !.ret = [k \in 1..Len(found) |-> eval(found[k])]]
  /\ UNCHANGED <<cfgVars, tickVars, loopVars, lpc, cpc, localVars, readVars, clickVars,
                 page, tracker, table, calls, workers, bot_thread, hpc, quick, click,
                 stats, integration, api, manager>>

LogsNext == LogBotActivity \/ GetRecentLogs

\* the service starts with no list for the session; the bot's configuration
\* plays no part
LogsInit == Init /\ prog = "persistent" /\ rule = ShippedRule /\ cap = MaxCap

LogsSpec == LogsInit /\ [][LogsNext]_vars

(***************************************************************************)
(* Vocabulary of the properties.                                           *)
(***************************************************************************)
\* the job the for loop is at
Cur == jobs[idx]

\* positions of the cycle between the tests of the for head and the end of
\* the work on jobs[idx]
AcceptPath == {"nav_accept", "accept", "post_accept"}
RejectPath == {"reject", "nav_back"}
InJob == {"is_telephone", "details"} \cup AcceptPath \cup RejectPath

\* case-insensitive substring, as the claims state it
HasType(text, type) == Contains(Lower(text), Lower(type))

HasExcludeType(text, r) ==
  \E i \in 1..Len(r.exclude_types) : HasType(text, r.exclude_types[i])

RequiredNonBlank(job, r) ==
  \A i \in 1..Len(r.required_fields) : Strip(job[r.required_fields[i]]) # ""

\* a read that produced a text
Readable(f) == ~f.raised /\ f.text # ""

\* a read that gives no verdict: nothing read, or neither kind of type in it
Ambiguous(f, r) ==
  \/ ~Readable(f)
  \/ ~HasType(f.text, r.job_type) /\ ~HasExcludeType(f.text, r)

MeetsPreconditions(job, r) ==
  /\ Contains(Lower(job.status), "matched")
  /\ RequiredNonBlank(job, r)
  /\ job.view_url # ""

HasBoth(f, r) ==
  Readable(f) /\ HasType(f.text, r.job_type) /\ HasExcludeType(f.text, r)

\* what a read says under a rule, and whether a row meets the preconditions:
\* the predicates above over the finite inputs of the model, as tables
ReadSays ==
  [f \in Fetches, r \in Rules |->
     [readable  |-> Readable(f),
      accept    |-> HasType(f.text, r.job_type),
      exclude   |-> HasExcludeType(f.text, r),
      both      |-> HasBoth(f, r),
      ambiguous |-> Ambiguous(f, r)]]

RowMeets == [j \in JobRows, r \in Rules |-> MeetsPreconditions(j, r)]

(***************************************************************************)
(* C1. An accept click is made for a job only if its status contains       *)
(* "matched", every required field is non-blank, its detail URL is         *)
(* non-empty, and the details text read for it contains the accept type    *)
(* and no exclude type (case-insensitive); a job whose details text        *)
(* contains an exclude type is never accepted.                             *)
(***************************************************************************)
C1_AcceptOnlyEligible ==
  cpc = "post_accept" =>
    /\ RowMeets[Cur, rule]
    /\ ReadSays[first_read, rule].readable
    /\ ReadSays[first_read, rule].accept
    /\ ~ReadSays[first_read, rule].exclude

C1_Witness ==
  /\ cpc = "post_accept"
  /\ rule = ShippedRule
  /\ first_read.text = "Telephone interpreting, 30 min"
  /\ Cur.status = "MATCHED - Confirm"

C3_ExcludeBeforeAccept ==
  /\ (navs = 1 /\ ReadSays[first_read, rule].both) => cpc = "details"
  /\ (navs = 2 /\ ReadSays[second_read, rule].both) =>
        (cpc = "reject" \/ last_result # "none")

C3_Witness ==
  /\ cpc = "nav_back" /\ last_result = "true"
  /\ second_read.text = "TELEPHONE INTERPRETING or ONSITE"
  /\ reject_clicks = 1 /\ accept_clicks = 0

(***************************************************************************)
(* C4. A job for which the read gives no verdict (the fetch fails, the     *)
(* text is empty, or it holds neither the accept type nor an exclude type) *)
(* gets no accept and no reject action and nothing is added to the         *)
(* tracker, for every configured exclude list.                             *)
(***************************************************************************)
C4_AmbiguousIsSkipped ==
  [][ /\ (cpc = "is_telephone" /\ navs' = 1 /\ ReadSays[first_read', rule].ambiguous) =>
           /\ cpc' = "details"
           /\ tracker' = tracker
           /\ accept_clicks' = accept_clicks /\ reject_clicks' = reject_clicks
      /\ (cpc = "details" /\ navs' = 2 /\ ReadSays[second_read', rule].ambiguous) =>
           /\ cpc' = "for" /\ idx' = idx + 1
           /\ last_result' = "none"
           /\ tracker' = tracker
           /\ accept_clicks' = accept_clicks /\ reject_clicks' = reject_clicks
    ]_vars

\* both reads gave "Video interpreting" / nothing and the loop moved on
C4_Witness ==
  /\ cpc = "for" /\ navs = 2 /\ last_result = "none"
  /\ second_read = [raised |-> FALSE, text |-> "Video interpreting"]
  /\ rule = ShippedRule
  /\ tracker.total_accepted = 0 /\ tracker.total_rejected = 0

(***************************************************************************)
(* C5. A job that fails a precondition (status without "matched", a blank  *)
(* required field, an empty detail URL) is skipped without any navigation  *)
(* to a detail page and without an action: the detail fetch comes only     *)
(* after the three tests passed.                                           *)
(***************************************************************************)
NotDetailPages == {"blank", "login", "portal", "board", "error"}

C5_FetchOnlyAfterPreconditions ==
  /\ cpc \in InJob => RowMeets[Cur, rule]
  \* (before line 30 the page is where the quick check left it)
  /\ (cpc # "goto" /\ page \notin NotDetailPages) =>
       \E j \in JobRows : j.view_url = page /\ RowMeets[j, rule]

\* the "Submitted" row was passed over on the board
C5_Witness ==
  /\ cpc = "for" /\ idx = 2 /\ jobs[1].status = "Submitted"
  /\ navs = 0 /\ page = "board" /\ last_result = "none"
  /\ accept_clicks = 0 /\ reject_clicks = 0

(***************************************************************************)
(* C6. When a job is rejected because its details text contains an exclude *)
(* type, the rejection reason recorded in the tracker names the exclude    *)
(* type that matched.                                                      *)
(***************************************************************************)
LastRejected == tracker.rejected_jobs[Len(tracker.rejected_jobs)]

C6_ReasonNamesMatchedType ==
  (prog = "persistent" /\ cpc = "nav_back" /\ last_result = "true") =>
    \E i \in 1..Len(rule.exclude_types) :
      /\ HasType(second_read.text, rule.exclude_types[i])
      /\ HasType(LastRejected.rejection_reason, rule.exclude_types[i])

(***************************************************************************)
(* C7. A failure at any step of a cycle ends the cycle with a normal       *)
(* return and never reaches the scheduling loop of run_persistent_bot.     *)
(***************************************************************************)
C7_CycleFailureStaysInCycle ==
  (prog = "persistent" /\ ticks > 0) => lpc # "crashed"

(***************************************************************************)
(* C8. No polling cycle is executed unless the login step ended with the   *)
(* success indicator (the header user element) observed.                   *)
(***************************************************************************)
C8_PollingOnlyAfterLoginSignal ==
  [][ticks' > ticks => login_signal = "seen"]_vars

(***************************************************************************)
(* C9. accept_from_board and reject_on_detail return false and never raise *)
(* when the control is missing or the click fails; on false the cycle      *)
(* records nothing, leaves the counters alone and goes on (to the next     *)
(* job, after the way back to the board on the reject side); a job that    *)
(* passes the tests of the for head is fetched again in a later cycle.     *)
(***************************************************************************)
C9_FalseLeavesJobForLater ==
  [][ /\ (cpc = "accept" /\ cpc' # "accept") =>
           /\ cpc' \in {"post_accept", "for"}
           /\ lpc' = lpc
      /\ (cpc = "reject" /\ cpc' # "reject") =>
           /\ cpc' = "nav_back"
           /\ lpc' = lpc
      /\ (cpc \in {"accept", "reject"} /\ last_result' = "false") =>
           /\ tracker' = tracker
           /\ accepted' = accepted
           /\ accept_clicks' = accept_clicks /\ reject_clicks' = reject_clicks
           /\ cpc = "accept" => (cpc' = "for" /\ idx' = idx + 1)
      /\ (cpc = "for" /\ (cpc' # "for" \/ idx' # idx)
            /\ idx <= Len(jobs) /\ accepted < cap /\ RowMeets[Cur, rule]) =>
           (cpc' = "is_telephone" /\ idx' = idx)
    ]_vars

\* a job whose accept or reject returned false in an earlier cycle is at the
\* detail fetch again
C9_Witness ==
  /\ cpc = "is_telephone" /\ ticks = 2
  /\ failed_ref = Cur.ref
  /\ tracker.total_accepted = 0 /\ tracker.total_rejected = 0

(***************************************************************************)
(* C10. When the job-list container does not become ready in time,         *)
(* extract_jobs returns the empty list without raising; the cycle then     *)
(* performs no action, leaves the tracker unchanged and returns 0 to the   *)
(* loop, which polls again on the next tick.                               *)
(***************************************************************************)
C10_TimeoutIsEmptyCycle ==
  [][ /\ (cpc = "extract" /\ cpc' # "extract" /\ extract_kind' = "timeout") =>
           /\ cpc' = "for" /\ lpc' = lpc
           /\ jobs' = <<>> /\ accepted_set' /\ accepted' = 0
           /\ tracker' = tracker
      /\ (extract_kind = "timeout" /\ accepted_set /\ cpc \in {"for", "return"}) =>
           /\ tracker' = tracker
           /\ accepted' = 0 /\ accept_clicks' = 0 /\ reject_clicks' = 0
           /\ page' = page
           /\ \/ cpc' \in {"for", "return"} /\ lpc' = lpc
              \/ cpc = "return" /\ cpc' = "idle"
                   /\ lpc' = (IF prog = "once" THEN "stopped" ELSE "report")
    ]_vars

\* the tick after a timed-out extraction has started and refreshes the board
C10_Witness ==
  /\ prog = "persistent" /\ ticks = 2 /\ cpc = "goto"
  /\ extract_kind = "timeout"
  /\ tracker.total_accepted = 0 /\ tracker.total_rejected = 0
  /\ tracker.check_cycles = 2

(***************************************************************************)
(* The ResultsTracker on its own: its methods called in any order while    *)
(* the clock advances.                                                     *)
(***************************************************************************)
Intervals == 0..MaxInterval

TrackedJobs == {BoardRows[1]}

TrackerInit ==
  /\ prog = "persistent" /\ rule = ShippedRule /\ cap = 0
  /\ enable_quick_check = FALSE
  /\ Fresh
  /\ running = TRUE
  /\ \E ri \in Intervals, rji \in Intervals : tracker = NewTracker(0, ri, rji)
  /\ table = <<>>

\* one more call of a method that writes to the tracker
Called == calls < MaxCalls /\ calls' = calls + 1

ClockAdvance ==
  /\ now < MaxTime
  /\ now' = now + 1
  /\ UNCHANGED <<botVars, tracker, reports, calls>>

CallAddAccepted ==
  /\ tracker.total_accepted < MaxJobs
  /\ \E job \in TrackedJobs : tracker' = add_accepted_job(tracker, job, now)
  /\ Called
  /\ UNCHANGED <<botVars, now, reports>>

CallAddRejected ==
  /\ tracker.total_rejected < MaxJobs
  /\ \E job \in TrackedJobs : tracker' = add_rejected_job(tracker, job, RejectReason, now)
  /\ Called
  /\ UNCHANGED <<botVars, now, reports>>

CallIncrementCheckCycle ==
  /\ tracker.check_cycles < MaxTicks
  /\ tracker' = increment_check_cycle(tracker, now)
  /\ Called
  /\ UNCHANGED <<botVars, now, reports>>

CallSetLoginStatus ==
  /\ \E success \in BOOLEAN :
       tracker' = set_login_status(tracker,
                    IF success THEN "Login successful" ELSE "Login failed", success, now)
  /\ Called
  /\ UNCHANGED <<botVars, now, reports>>

CallUpdateActivity ==
  /\ tracker' = update_activity(tracker, now)
  /\ Called
  /\ UNCHANGED <<botVars, now, reports>>

\* a method that only reads the tracker and the clock: ret is what it returns
Query(ret) ==
  /\ ret = ret
  /\ UNCHANGED <<botVars, now, reports, tracker, calls>>

CallShouldReport == Query(should_report(tracker, now))

CallShouldReportRejected == Query(should_report_rejected(tracker, now))

CallGetResultsSummary == Query(get_results_summary(tracker, now))

CallGetRejectedSummary == Query(get_rejected_summary(tracker, now))

CallGetUnifiedSummary == Query(get_unified_summary(tracker, now))

CallGetDetailedStats == Query(get_detailed_stats(tracker, now))

CallReportResults ==
  /\ LET r == report_results(tracker, now)
     IN  tracker' = r.tracker /\ reports' = reports \o r.printed
  /\ Called
  /\ UNCHANGED <<botVars, now>>

CallReportRejected ==
  /\ LET r == report_rejected_jobs(tracker, now)
     IN  tracker' = r.tracker /\ reports' = reports \o r.printed
  /\ Called
  /\ UNCHANGED <<botVars, now>>

TrackerNext ==
  \/ ClockAdvance
  \/ CallAddAccepted
  \/ CallAddRejected
  \/ CallIncrementCheckCycle
  \/ CallSetLoginStatus
  \/ CallUpdateActivity
  \/ CallShouldReport
  \/ CallShouldReportRejected
  \/ CallGetResultsSummary
  \/ CallGetRejectedSummary
  \/ CallGetUnifiedSummary
  \/ CallGetDetailedStats
  \/ CallReportResults
  \/ CallReportRejected

TrackerSpec == TrackerInit /\ [][TrackerNext]_vars

(***************************************************************************)
(* The module-level functions of results_tracker.py: they work on the      *)
(* global _tracker, which initialize_tracker replaces by a new             *)
(* ResultsTracker. The intervals are those of BOT_CONFIG, read when        *)
(* config.py is imported.                                                  *)
(***************************************************************************)
initialize_tracker(report_interval, rejected_interval, time) ==
  NewTracker(time, report_interval, rejected_interval)

CallInitializeTracker ==
  /\ tracker' = initialize_tracker(tracker.report_interval,
                                   tracker.rejected_report_interval, now)
  /\ Called
  /\ UNCHANGED <<botVars, now, reports>>

ModuleNext ==
  \/ TrackerNext
  \/ CallInitializeTracker

ModuleSpec == TrackerInit /\ [][ModuleNext]_vars

(***************************************************************************)
(* The UI trigger (ui_trigger.py): toggle_bot starts a thread that runs    *)
(* run_persistent_bot, or clears the flag and waits up to 5 seconds for    *)
(* the thread started last. A thread's position is that of                 *)
(* run_persistent_bot: "login", "loop" (the while test of line 154),       *)
(* "cycle", "report", "final", "stopped", or "crashed" when an exception   *)
(* left it.                                                                *)
(***************************************************************************)
ToggleInit ==
  /\ prog = "persistent" /\ rule = ShippedRule /\ cap = 0
  /\ enable_quick_check = FALSE
  /\ Fresh
  \* ui_trigger.py line 12
  /\ running = FALSE
  /\ tracker = NewTracker(0, results_report_interval, rejected_report_interval)
  /\ table = <<>>

toggleFrame ==
  <<cfgVars, login_signal, ticks, lpc, cpc, localVars, readVars, clickVars, page,
    tracker, table, calls, tickVars, quick, click, stats, integration, api, manager, logs>>

\* threading.Thread.is_alive
is_alive(w) == workers[w] \notin {"stopped", "crashed"}

\* toggle_bot, lines 24-28
ToggleStart ==
  /\ hpc = "idle" /\ ~running
  /\ Len(workers) < MaxWorkers
  /\ running' = TRUE
  /\ workers' = Append(workers, "login")
  /\ bot_thread' = Len(workers) + 1
  /\ UNCHANGED <<toggleFrame, hpc>>

\* toggle_bot, lines 29-32: the flag is cleared, then the join
ToggleStop ==
  /\ hpc = "idle" /\ running
  /\ running' = FALSE
  /\ hpc' = IF bot_thread # 0 /\ is_alive(bot_thread) THEN "join" ELSE "idle"
  /\ UNCHANGED <<toggleFrame, workers, bot_thread>>

\* bot_thread.join(timeout=5) returns: the thread has ended, or 5 seconds passed
JoinReturns ==
  /\ hpc = "join"
  /\ hpc' = "idle"
  /\ UNCHANGED <<toggleFrame, running, workers, bot_thread>>

\* one step of the thread w through run_persistent_bot
WorkerStep ==
  /\ \E w \in 1..Len(workers) :
       \E to \in {"loop", "cycle", "report", "final", "stopped", "crashed"} :
         /\ \/ workers[w] = "login" /\ to \in {"loop", "crashed"}
            \/ workers[w] = "loop" /\ to = (IF running THEN "cycle" ELSE "final")
            \/ workers[w] = "cycle" /\ to \in {"report", "crashed"}
            \/ workers[w] = "report" /\ to = "loop"
            \/ workers[w] = "final" /\ to \in {"stopped", "crashed"}
         /\ workers' = [workers EXCEPT ![w] = to]
  /\ UNCHANGED <<toggleFrame, running, bot_thread, hpc>>

ToggleNext ==
  \/ ToggleStart
  \/ ToggleStop
  \/ JoinReturns
  \/ WorkerStep

ToggleSpec == ToggleInit /\ [][ToggleNext]_vars

(***************************************************************************)
(* C11. Each record extract_jobs returns comes from a row with at least 8  *)
(* data cells and no colspan cell, and has a non-empty ref; a row failing  *)
(* one of the three conditions contributes no record.                      *)
(***************************************************************************)
WellFormed(row) ==
  ~row.colspan /\ Len(row.cells) >= 8 /\ Strip(row.cells[1]) # ""

C11_RecordsFromWellFormedRows ==
  extract_kind = "rows" =>
    /\ \A i \in 1..Len(jobs) : jobs[i].ref # ""
    /\ Len(jobs) = Cardinality({k \in 1..Len(table) : WellFormed(table[k])})

(***************************************************************************)
(* C12. In every state of the tracker total_accepted is the length of      *)
(* accepted_jobs and total_rejected the length of rejected_jobs; a call of *)
(* add_accepted_job adds one to total_accepted and one record to           *)
(* accepted_jobs and leaves total_rejected and rejected_jobs as they were, *)
(* and a call of add_rejected_job does the same on the rejected side.      *)
(***************************************************************************)
C12_CountersMatchSequences ==
  /\ [](/\ tracker.total_accepted = Len(tracker.accepted_jobs)
        /\ tracker.total_rejected = Len(tracker.rejected_jobs))
  /\ [][ /\ CallAddAccepted =>
             /\ tracker'.total_accepted = tracker.total_accepted + 1
             /\ Len(tracker'.accepted_jobs) = Len(tracker.accepted_jobs) + 1
             /\ tracker'.total_rejected = tracker.total_rejected
             /\ tracker'.rejected_jobs = tracker.rejected_jobs
         /\ CallAddRejected =>
             /\ tracker'.total_rejected = tracker.total_rejected + 1
             /\ Len(tracker'.rejected_jobs) = Len(tracker.rejected_jobs) + 1
             /\ tracker'.total_accepted = tracker.total_accepted
             /\ tracker'.accepted_jobs = tracker.accepted_jobs
       ]_vars

\* both kinds of call were made, interleaved with a report
C12_Witness ==
  /\ tracker.total_accepted = 2 /\ Len(tracker.accepted_jobs) = 2
  /\ tracker.total_rejected = 1 /\ Len(tracker.rejected_jobs) = 1
  /\ tracker.accepted_jobs[1].accepted_timestamp < tracker.rejected_jobs[1].rejected_timestamp
  /\ tracker.rejected_jobs[1].rejected_timestamp < tracker.accepted_jobs[2].accepted_timestamp

(***************************************************************************)
(* When the last report of a kind was emitted (the construction of the     *)
(* tracker when none was), read off what was printed.                      *)
(***************************************************************************)
LastEmitted(kind) ==
  LET S == {i \in 1..Len(reports) : reports[i].kind = kind}
  IN  IF S = {} THEN tracker.session_start_time
      ELSE reports[CHOOSE i \in S : \A k \in S : k <= i].summary.report_time

(***************************************************************************)
(* C13, as stated. For every configured interval: right after a call of    *)
(* report_results, at the same clock reading, should_report() is false,    *)
(* and should_report() is true whenever the clock is at least the interval *)
(* past the last emitted report; the same for should_report_rejected() and *)
(* report_rejected_jobs().                                                 *)
(***************************************************************************)
C13_ReportResetsTimer_AnyInterval ==
  /\ [][ /\ CallReportResults => ~should_report(tracker', now')
         /\ CallReportRejected => ~should_report_rejected(tracker', now')
       ]_vars
  /\ [](/\ (now - LastEmitted("results")) >= tracker.report_interval
             => should_report(tracker, now)
        /\ (now - LastEmitted("rejected")) >= tracker.rejected_report_interval
             => should_report_rejected(tracker, now))

(***************************************************************************)
(* C13, amended. The same for every configured interval greater than zero  *)
(* (with an interval of zero a report is due at every clock reading, also  *)
(* right after one was emitted).                                           *)
(***************************************************************************)
C13_ReportResetsTimer ==
  /\ [][ /\ (CallReportResults /\ tracker.report_interval > 0)
               => ~should_report(tracker', now')
         /\ (CallReportRejected /\ tracker.rejected_report_interval > 0)
               => ~should_report_rejected(tracker', now')
       ]_vars
  /\ [](/\ (now - LastEmitted("results")) >= tracker.report_interval
             => should_report(tracker, now)
        /\ (now - LastEmitted("rejected")) >= tracker.rejected_report_interval
             => should_report_rejected(tracker, now))

\* both reports were emitted at reading 1 and are due again at reading 2
C13_Witness ==
  /\ tracker.report_interval = 1 /\ tracker.rejected_report_interval = 1
  /\ Len(reports) = 2 /\ reports[1].kind = "results" /\ reports[2].kind = "rejected"
  /\ LastEmitted("results") = 1 /\ LastEmitted("rejected") = 1
  /\ now = 2
  /\ should_report(tracker, now) /\ should_report_rejected(tracker, now)

(***************************************************************************)
(* C14. add_accepted_job, add_rejected_job, increment_check_cycle,         *)
(* set_login_status, update_activity and the queries (should_report,       *)
(* should_report_rejected, the four summaries) leave last_report_time and  *)
(* last_rejected_report_time as they were: each of the two changes only in *)
(* a call of its own report method that finds the report due; and          *)
(* should_report / should_report_rejected change nothing of the tracker.   *)
(***************************************************************************)
C14_OnlyReportsAdvanceTheTimers ==
  [][ /\ ( \/ CallAddAccepted \/ CallAddRejected \/ CallIncrementCheckCycle
           \/ CallSetLoginStatus \/ CallUpdateActivity
           \/ CallShouldReport \/ CallShouldReportRejected
           \/ CallGetResultsSummary \/ CallGetRejectedSummary
           \/ CallGetUnifiedSummary \/ CallGetDetailedStats ) =>
           /\ tracker'.last_report_time = tracker.last_report_time
           /\ tracker'.last_rejected_report_time = tracker.last_rejected_report_time
      /\ tracker'.last_report_time # tracker.last_report_time =>
           CallReportResults /\ should_report(tracker, now)
      /\ tracker'.last_rejected_report_time # tracker.last_rejected_report_time =>
           CallReportRejected /\ should_report_rejected(tracker, now)
      /\ (CallShouldReport \/ CallShouldReportRejected) => tracker' = tracker
    ]_vars

\* the results report has been due since reading 1, other methods were called
\* and no report call was made
C14_Witness ==
  /\ tracker.report_interval = 1 /\ now = 2 /\ reports = <<>>
  /\ tracker.last_report_time = 0 /\ tracker.last_rejected_report_time = 0
  /\ tracker.check_cycles = 1 /\ tracker.total_accepted = 1
  /\ tracker.login_time = 1
  /\ tracker.last_activity_time = 2

(***************************************************************************)
(* C15. With no report call since the construction, should_report() is     *)
(* false before the interval has passed since the construction and true    *)
(* from then on, and accepted_since_last_report of get_results_summary()   *)
(* is the number of accepted jobs added at or after the time of the last   *)
(* report (the construction when none was emitted), a job added at that    *)
(* very clock reading included: three jobs added at 0, 1 and 2 to a        *)
(* tracker constructed at 0 give 3.                                        *)
(***************************************************************************)
AddedSince(time) ==
  Cardinality({i \in 1..Len(tracker.accepted_jobs) :
                 tracker.accepted_jobs[i].accepted_timestamp >= time})

C15_SummaryCountsSinceLastReport ==
  /\ reports = <<>> =>
       (should_report(tracker, now)
          = ((now - tracker.session_start_time) >= tracker.report_interval))
  /\ get_results_summary(tracker, now).accepted_since_last_report
       = AddedSince(tracker.last_report_time)

(***************************************************************************)
(* C16. After a navigation to a job's detail page the list view is shown   *)
(* again before the for loop goes on: at the head of the loop the page is  *)
(* never a job's detail page, whatever was decided for the job before.     *)
(***************************************************************************)
C16_ListViewBeforeNextJob ==
  cpc = "for" => page \in NotDetailPages

(***************************************************************************)
(* C20. What the cycle does with a job is a function of the job, the rule  *)
(* and the text of its detail page: when the text read is t, the cycle     *)
(* goes towards the accept exactly if t holds the accept type and no       *)
(* exclude type, and to the reject exactly if t holds an exclude type,     *)
(* also when the page is read a second time and that read returns t again  *)
(* or fails.                                                               *)
(***************************************************************************)
Decision ==
  [f \in Fetches, r \in Rules |->
     IF ReadSays[f, r].readable /\ ReadSays[f, r].exclude THEN "reject"
     ELSE IF ReadSays[f, r].readable /\ ReadSays[f, r].accept THEN "accept"
     ELSE "skip"]

C20_DecisionFromTextAlone ==
  [][ /\ (cpc = "is_telephone" /\ cpc' # cpc /\ ~first_read'.raised) =>
           ((cpc' = "nav_accept") = (Decision[first_read', rule] = "accept"))
      /\ (cpc = "details" /\ cpc' # cpc /\ ~first_read.raised
            /\ (second_read'.raised \/ second_read'.text = first_read.text)) =>
           ((cpc' = "reject") = (Decision[first_read, rule] = "reject"))
    ]_vars

(***************************************************************************)
(* C17. Whatever toggle_bot requests are made, and whenever, at most one   *)
(* thread is inside the polling loop of run_persistent_bot.                *)
(***************************************************************************)
InLoop == {w \in 1..Len(workers) : workers[w] \in {"loop", "cycle", "report"}}

C17_OneWorkerInLoop ==
  Cardinality(InLoop) <= 1

(***************************************************************************)
(* Vocabulary of the scheduling loop.                                      *)
(***************************************************************************)
\* the order of lines 160-186
TickOrder == <<"quick_check", "cycle", "results_report", "rejected_report">>

Position(step) == CHOOSE i \in 1..Len(TickOrder) : TickOrder[i] = step

\* the steps run in tick k, in the order they ran
StepsOf(k) == SelectSeq(ran, LAMBDA e : e.tick = k)

\* the quick checks run so far
QuickRuns == SelectSeq(ran, LAMBDA e : e.step = "quick_check")

\* positions of run_persistent_bot inside a tick
InTick == {"quick_check", "cycle", "report", "rejected_report", "sleep"}

(***************************************************************************)
(* C18. The running flag is read at the top of the loop only: once it is   *)
(* false, the tick in flight runs its cycle, its results report and its    *)
(* rejected report to the end, no further tick starts, and the loop is     *)
(* left from its top, by the exit of line 154.                             *)
(***************************************************************************)
C18_StopLetsTheTickFinish ==
  /\ [](( prog = "persistent" /\ ~running /\ ticks > 0 /\ lpc \notin InTick ) =>
          /\ lpc \in {"loop", "final", "stopped"}
          /\ \A p \in 2..Len(TickOrder) :
               \E i \in 1..Len(ran) : ran[i] = [tick |-> ticks, step |-> TickOrder[p],
                                                time |-> current_time])
  /\ [][ /\ ~running => ticks' = ticks
         /\ (prog = "persistent" /\ lpc # "final" /\ lpc' = "final") =>
              (lpc = "loop" /\ ~running)
       ]_vars

C21_NothingDecreases ==
  [][ /\ tracker'.total_accepted >= tracker.total_accepted
      /\ tracker'.total_rejected >= tracker.total_rejected
      /\ tracker'.check_cycles >= tracker.check_cycles
      /\ tracker'.last_report_time >= tracker.last_report_time
      /\ tracker'.last_rejected_report_time >= tracker.last_rejected_report_time
    ]_vars

(***************************************************************************)
(* C21, amended. The two last-report timestamps never decrease, and the    *)
(* three counters never decrease except in a call of initialize_tracker,   *)
(* which sets all three to 0.                                              *)
(***************************************************************************)
C21_NothingDecreasesButAtInitialize ==
  [][ /\ tracker'.last_report_time >= tracker.last_report_time
      /\ tracker'.last_rejected_report_time >= tracker.last_rejected_report_time
      /\ \/ /\ tracker'.total_accepted >= tracker.total_accepted
            /\ tracker'.total_rejected >= tracker.total_rejected
            /\ tracker'.check_cycles >= tracker.check_cycles
         \/ /\ CallInitializeTracker
            /\ tracker'.total_accepted = 0
            /\ tracker'.total_rejected = 0
            /\ tracker'.check_cycles = 0
    ]_vars

\* a job was added and reported, then the tracker was initialized again at a
\* later reading: the counter read through get_tracker() is back at 0
C21_Witness ==
  /\ tracker.session_start_time = 1
  /\ tracker.last_report_time = 1 /\ tracker.last_rejected_report_time = 1
  /\ tracker.total_accepted = 0
  /\ Len(reports) = 1 /\ reports[1].kind = "results"
  /\ reports[1].summary.total_accepted = 1
  /\ reports[1].summary.report_time = 0

(***************************************************************************)
(* C22. A quick check clicks nothing and leaves the tracker as it was; it  *)
(* returns, in board order, the matched jobs that have a detail URL and    *)
(* whose details text, as read, contains the selected category whatever    *)
(* the case of the letters, or all matched jobs when no category is        *)
(* selected; its result is their number.                                   *)
(***************************************************************************)
C22_QuickCheckOnlyLooks ==
  /\ [][QuickJobCheckCycle =>
           /\ tracker' = tracker
           /\ accept_clicks' = accept_clicks /\ reject_clicks' = reject_clicks]_vars
  /\ [](LET Expected(i) ==
              /\ IsMatched(quick.jobs[i])
              /\ \/ quick.selected_category = ""
                 \/ /\ HasViewUrl(quick.jobs[i])
                    /\ ~quick.reads[i].raised
                    /\ Contains(Lower(quick.reads[i].text),
                                Lower(quick.selected_category))
            Listed(job) ==
              \E k \in 1..Len(quick.matching_jobs) : quick.matching_jobs[k] = job
        IN  quick.done =>
              /\ \A i \in 1..Len(quick.jobs) : Expected(i) <=> Listed(quick.jobs[i])
              /\ \A k \in 1..Len(quick.matching_jobs) :
                   \E i \in 1..Len(quick.jobs) : quick.jobs[i] = quick.matching_jobs[k]
              /\ Len(quick.matching_jobs)
                   = Cardinality({i \in 1..Len(quick.jobs) : Expected(i)})
              /\ quick.ret = Len(quick.matching_jobs))

\* two matched jobs with a URL: the first reads as telephone work in capitals
\* and is returned, the second reads as video work and is not
C22_Witness ==
  /\ quick.done /\ quick.selected_category = "Telephone interpreting"
  /\ Len(quick.jobs) = 2
  /\ quick.reads[1].text = "TELEPHONE INTERPRETING or ONSITE"
  /\ quick.reads[2] = [raised |-> FALSE, text |-> "Video interpreting"]
  /\ quick.matching_jobs = <<quick.jobs[1]>>
  /\ quick.ret = 1
  /\ page = quick.jobs[2].view_url

(***************************************************************************)
(* C23. Every accept click and every reject click is recorded in the       *)
(* tracker once, and nothing is recorded without its click: between two    *)
(* jobs, and after the cycle, the records the tracker got in this tick are *)
(* as many as the clicks of this tick's cycle, on either side; so the      *)
(* totals are the clicks of the whole run.                                 *)
(***************************************************************************)
C23_ClicksAreRecorded ==
  LET AcceptedNow == {i \in 1..Len(tracker.accepted_jobs) :
                        tracker.accepted_jobs[i].accepted_timestamp = current_time}
      RejectedNow == {i \in 1..Len(tracker.rejected_jobs) :
                        tracker.rejected_jobs[i].rejected_timestamp = current_time}
  IN  (prog = "persistent" /\ ticks > 0 /\ cpc \in {"for", "return", "idle"}) =>
        /\ Cardinality(AcceptedNow) = accept_clicks
        /\ Cardinality(RejectedNow) = reject_clicks

(***************************************************************************)
(* C24. Over the cycles of a run a job ref is recorded at most once: no    *)
(* two records of accepted_jobs and no two of rejected_jobs have the same  *)
(* ref, and no ref is in both sequences, whatever the board lists in the   *)
(* later polls.                                                            *)
(***************************************************************************)
C24_RefRecordedOnce ==
  /\ \A i, k \in 1..Len(tracker.accepted_jobs) :
       tracker.accepted_jobs[i].ref = tracker.accepted_jobs[k].ref => i = k
  /\ \A i, k \in 1..Len(tracker.rejected_jobs) :
       tracker.rejected_jobs[i].ref = tracker.rejected_jobs[k].ref => i = k
  /\ \A i \in 1..Len(tracker.accepted_jobs), k \in 1..Len(tracker.rejected_jobs) :
       tracker.accepted_jobs[i].ref # tracker.rejected_jobs[k].ref

(***************************************************************************)
(* C25. Classifying a job takes one navigation to its detail page and one  *)
(* read of it, whatever the verdict: from the first read until the loop    *)
(* moves on, the job's detail page has been fetched exactly once, and the  *)
(* reject click and the accept click follow that one read.                 *)
(***************************************************************************)
C25_OneFetchPerJob ==
  /\ navs <= 1
  /\ cpc \in (AcceptPath \cup RejectPath) => navs = 1

(***************************************************************************)
(* C26. Every recorded job is in the "since last report" delta of exactly  *)
(* one emitted results report, the first emitted after it was added, also  *)
(* when it was added at the clock reading of a report: the deltas of the   *)
(* results reports emitted so far add up to the totals the last of them    *)
(* shows, for the accepted and for the rejected jobs.                      *)
(***************************************************************************)
C26_DeltasPartitionTheRecords ==
  LET Results == SelectSeq(reports, LAMBDA e : e.kind = "results")
      Accepted[n \in 0..Len(Results)] ==
        IF n = 0 THEN 0
        ELSE Accepted[n - 1] + Results[n].summary.accepted_since_last_report
      Rejected[n \in 0..Len(Results)] ==
        IF n = 0 THEN 0
        ELSE Rejected[n - 1] + Results[n].summary.rejected_since_last_report
  IN  Results # <<>> =>
        /\ Accepted[Len(Results)] = Results[Len(Results)].summary.total_accepted
        /\ Rejected[Len(Results)] = Results[Len(Results)].summary.total_rejected

(***************************************************************************)
(* C27. The two report timers are independent: report_results changes      *)
(* nothing of the tracker but last_report_time, report_rejected_jobs       *)
(* nothing but last_rejected_report_time; so a report of one kind leaves   *)
(* the counters and the job sequences alone and does not change whether    *)
(* the report of the other kind is due.                                    *)
(***************************************************************************)
C27_ReportTimersIndependent ==
  [][ /\ CallReportResults =>
           /\ tracker' = [tracker EXCEPT !.last_report_time = tracker'.last_report_time]
           /\ should_report_rejected(tracker', now') = should_report_rejected(tracker, now)
      /\ CallReportRejected =>
           /\ tracker' = [tracker EXCEPT
                            !.last_rejected_report_time = tracker'.last_rejected_report_time]
           /\ should_report(tracker', now') = should_report(tracker, now)
    ]_vars

\* a rejected report was emitted at reading 2 while the results report, last
\* emitted at reading 1, was due again and stays due
C27_Witness ==
  /\ Len(reports) = 2 /\ reports[1].kind = "results" /\ reports[2].kind = "rejected"
  /\ tracker.last_report_time = 1 /\ tracker.last_rejected_report_time = 2
  /\ tracker.report_interval = 1 /\ now = 2
  /\ should_report(tracker, now) /\ ~should_report_rejected(tracker, now)

(***************************************************************************)
(* C28. A report call made before its interval has passed since the last   *)
(* emitted report of its kind (the construction when there was none)       *)
(* prints nothing and changes nothing of the tracker; so two consecutive   *)
(* emitted results reports are at least report_interval apart and two      *)
(* consecutive rejected reports at least rejected_report_interval.         *)
(***************************************************************************)
C28_EarlyReportCallIsNoOp ==
  /\ [][ /\ (CallReportResults /\ (now - LastEmitted("results")) < tracker.report_interval)
              => (tracker' = tracker /\ reports' = reports)
         /\ (CallReportRejected
               /\ (now - LastEmitted("rejected")) < tracker.rejected_report_interval)
              => (tracker' = tracker /\ reports' = reports)
       ]_vars
  /\ [](\A i, k \in 1..Len(reports) :
          (i < k /\ reports[i].kind = reports[k].kind) =>
            reports[k].summary.report_time - reports[i].summary.report_time
              >= (IF reports[i].kind = "results" THEN tracker.report_interval
                  ELSE tracker.rejected_report_interval))

\* results reports were emitted at readings 1 and 2, and one report call more
\* was made that printed nothing
C28_Witness ==
  /\ tracker.report_interval = 1 /\ tracker.rejected_report_interval = 2
  /\ Len(reports) = 2 /\ reports[1].kind = "results" /\ reports[2].kind = "results"
  /\ reports[1].summary.report_time = 1 /\ reports[2].summary.report_time = 2
  /\ calls = 3
  /\ tracker.check_cycles = 0 /\ tracker.total_accepted = 0 /\ tracker.total_rejected = 0
  /\ tracker.last_activity_time = NoTime
  /\ tracker.last_rejected_report_time = 0


(***************************************************************************)
(* C29. accept_from_board(ref) clicks only a control of the accept form of *)
(* the job of ref: whatever forms the board page holds, the form whose     *)
(* button it clicks belongs to the job whose ref it was given and is not   *)
(* that job's reject form.                                                 *)
(***************************************************************************)
C29_ClicksTheAcceptFormOfTheJob ==
  click.form # 0 =>
    /\ click.forms[click.form].ref = click.ref
    /\ click.forms[click.form].kind = "accept"


(***************************************************************************)
(* C30. Every call of persistent_bot_cycle ends, and one that extracted a  *)
(* job list returns to the loop.  Between the extraction and the return    *)
(* the position in the list only advances, by one at every arrival at the  *)
(* head of the for loop, so each extracted job is processed at most once;  *)
(* a click is made only for a job for which no helper has answered yet,    *)
(* and it is one click, so a job gets at most one of accept and reject.    *)
(* The count compared with the cap is 0 when the for loop starts and never *)
(* exceeds the accept clicks of this call.                                 *)
(***************************************************************************)
C30_CycleTerminates ==
  /\ (prog = "persistent" /\ cpc # "idle") ~> (cpc = "idle")
  /\ (prog = "persistent" /\ cpc = "for") ~> (cpc = "idle" /\ lpc = "report")
  /\ [][prog = "persistent" =>
          /\ (cpc = "extract" /\ cpc' = "for") => (idx' = 1 /\ accepted' = 0)
          /\ (cpc \notin {"idle", "extract"} /\ cpc' = "for") => idx' = idx + 1
          /\ (cpc \notin {"idle", "extract", "return"} /\ cpc' # "for") => idx' = idx
          /\ (accept_clicks' > accept_clicks \/ reject_clicks' > reject_clicks) =>
               /\ last_result = "none"
               /\ accept_clicks' + reject_clicks' = accept_clicks + reject_clicks + 1]_vars
  /\ [](accepted_set => accepted <= accept_clicks)

\* a call made after an earlier one has returned after a reject and an
\* accept, with a count of its own while the tracker holds the accepts of both
C30_Witness ==
  /\ ticks = 2 /\ cpc = "idle" /\ lpc = "report"
  /\ accepted = 1 /\ accept_clicks = 1 /\ reject_clicks = 1
  /\ tracker.total_accepted = 2


(***************************************************************************)
(* C31. The final statistics report succeeds whatever the tracker holds,   *)
(* also when no job was accepted or rejected: from the final report        *)
(* run_persistent_bot always goes on to "Bot stopped." and the closing of  *)
(* the context and the browser.                                            *)
(***************************************************************************)
C31_FinalReportSucceeds == [][lpc = "final" => lpc' \in {"final", "stopped"}]_vars


(***************************************************************************)
(* C32. The flag the UI shows matches the worker: whenever                 *)
(* BOT_CONFIG["bot_running"] is true the thread started last is alive, so  *)
(* a worker that has ended, for whatever reason, has left the flag false   *)
(* and the next toggle starts a new worker.                                *)
(***************************************************************************)
C32_FlagMatchesWorker == running => (bot_thread # 0 /\ is_alive(bot_thread))


(***************************************************************************)
(* C33. In what get_detailed_stats returns the language counts sum to      *)
(* total_accepted, the rejection-reason counts sum to total_rejected,      *)
(* total_jobs is their sum, every accepted job whose appointment hour can  *)
(* be read is counted in the one bucket of its hour (6-11 morning, 12-16   *)
(* afternoon, 17-21 evening, otherwise night) and a job whose time cannot  *)
(* be read in none, so the buckets sum to at most total_accepted.          *)
(***************************************************************************)
C33_StatsAddUp ==
  stats.done =>
    LET s == stats.ret
        acc == tracker.accepted_jobs
        Sum(f) == Cardinality({x \in (DOMAIN f) \X (1..(MaxJobs + MaxJobs)) : x[2] <= f[x[1]]})
        \* the bucket of each appointment time of the model, read off the clock
        Bucket(a) == CASE a \in {"06:00", "11:59", " 9:05", "10:30"} -> "morning"
                       [] a = "12:00" -> "afternoon"
                       [] a = "17:00" -> "evening"
                       [] a = "22:00" -> "night"
                       [] OTHER -> "none"
    IN  /\ Sum(s.languages) = s.total_accepted
        /\ Sum(s.rejection_reasons) = s.total_rejected
        /\ s.total_jobs = s.total_accepted + s.total_rejected
        /\ \A q \in DOMAIN s.time_periods :
             s.time_periods[q] = Cardinality({i \in 1..Len(acc) : Bucket(acc[i].appt_time) = q})
        /\ (acc # <<>>) => DOMAIN s.time_periods =
                             {"morning", "afternoon", "evening", "night"}
        /\ Sum(s.time_periods) <= s.total_accepted

\* two accepted jobs, one in the evening and one whose time cannot be read, and
\* a rejected job
C33_Witness ==
  /\ stats.done
  /\ tracker.total_accepted = 2 /\ tracker.total_rejected = 1
  /\ tracker.accepted_jobs[1].appt_time = "17:00"
  /\ tracker.accepted_jobs[2].appt_time = "TBC"
  /\ stats.ret.time_periods["evening"] = 1
  /\ stats.ret.time_periods["night"] = 0


(***************************************************************************)
(* C34. In an integrated run every tracker call of the bot (a job accepted *)
(* or rejected, a login status) goes through the enhanced function, so it  *)
(* is synced to the dashboard as well as added to the local tracker; and   *)
(* when the run is over, however it ended, the module holds the originals. *)
(***************************************************************************)
C34_EveryCallIsSynced ==
  /\ integration.session => integration.synced = integration.calls
  /\ integration.pc = "done" => integration.module = "original"


(***************************************************************************)
(* C35. POST /api/bot/start while a bot process is alive is answered 400   *)
(* and changes nothing, no session and no process being added, so at most  *)
(* one process the API has started is alive at any time; POST              *)
(* /api/bot/stop while no process is alive is answered 400 and changes no  *)
(* session.                                                                *)
(***************************************************************************)
C35_OneProcessAtATime ==
  /\ [][/\ (poll_is_none(api) /\ api'.request = "start") =>
             /\ api'.response = 400
             /\ api'.sessions = api.sessions /\ api'.procs = api.procs
             /\ api'.bot_process = api.bot_process
        /\ (~poll_is_none(api) /\ api'.request = "stop") =>
             (api'.response = 400 /\ api'.sessions = api.sessions)]_vars
  /\ [](Cardinality({p \in 1..Len(api.procs) : api.procs[p] # "exited"}) <= 1)

(***************************************************************************)
(* C36. A session started through the API has status "running" for as     *)
(* long as its process is alive and no stop of it was requested, the       *)
(* monitor task marking it stopped only after the process has exited; and  *)
(* a stop request whose termination of the process fails leaves the        *)
(* sessions as they were.                                                  *)
(***************************************************************************)
C36_RunningWhileAlive ==
  /\ [](\A i \in 1..Len(api.sessions) :
          LET session == api.sessions[i]
          IN  (/\ session.started /\ ~session.stop_requested
               /\ api.procs[session.proc] = "alive") => session.status = "running")
  /\ [][(api'.request = "stop" /\ api'.response = 500) =>
          \A i \in 1..Len(api.sessions) : api'.sessions[i].status = api.sessions[i].status]_vars


(***************************************************************************)
(* C37. broadcast attempts a send to every connection that was registered  *)
(* when it was called, however many of them are broken and wherever they   *)
(* are in the list; when it has returned, the connections whose send       *)
(* failed are gone from active_connections and all others are still there, *)
(* in their order.                                                         *)
(***************************************************************************)
C37_BroadcastReachesAll ==
  manager.done =>
    /\ manager.attempted = {manager.before[k] : k \in 1..Len(manager.before)}
    /\ manager.active_connections =
         SelectSeq(manager.before,
                   LAMBDA c : ~(c \in manager.attempted /\ c \in manager.broken))


(***************************************************************************)
(* C38. After any calls of log_bot_activity for a session the stored list  *)
(* holds the most recent entries, at most 1000 of them, newest first; and  *)
(* get_recent_logs(limit) returns the newest min(limit, length) of them in *)
(* that order, each equal to the entry that was logged.                    *)
(***************************************************************************)
C38_NewestLogsFirst ==
  LET length == IF logs.logged < 1000 THEN logs.logged ELSE 1000
      newest(n) == [k \in 1..n |-> log_entry(logs.logged - k + 1)]
  IN  /\ Len(logs.list) = length
      /\ \A k \in 1..length : eval(logs.list[k]) = newest(length)[k]
      /\ logs.limit >= 0 =>
           logs.ret = newest(IF logs.limit < length THEN logs.limit ELSE length)

====
